---- MODULE Spec2Model ----
(***************************************************************************)
(* Wisp enrichment pipeline (src/wisp/server/enrich.py): the HTTP fetcher  *)
(* with exponential backoff, the enrichment-status bookkeeping and the     *)
(* per-source enrichment workers, as state machines.                       *)
(*                                                                         *)
(* The specifications share the variables:                                 *)
(*   SpecFetch  one call of exponential_backoff_request after another,     *)
(*              with every argument and every response sequence;           *)
(*   Spec       runs of one enrichment worker over a small store;          *)
(*   SpecConfig runs of enrich_config_refs over the same store;            *)
(*   SpecSearch the same with GitHub code search rate limited;             *)
(*   SpecBatch  runs of one worker over a batch longer than the commit     *)
(*              interval, against a source that always answers 200;        *)
(*   SpecScores runs of compute_backlink_scores and                        *)
(*              compute_market_rankings over small sets of references;     *)
(*   SpecRank   the same over small sets of ranking signals;               *)
(*   SpecRetrieve  GET /search requests of the gateway (server.py,         *)
(*              server/retriever.py, server/relevance.py) on a small index;*)
(*   SpecResolve  resolve_env_vars applied to a string and to its result;  *)
(*   SpecCall   POST /call requests of the gateway, from the connection    *)
(*              lookup to the response;                                    *)
(*   SpecExtract  tool-extraction runs (server/mcp_client.py), with and    *)
(*              without --clean;                                           *)
(*   SpecList   GET /servers/<name>/tools requests;                        *)
(*   SpecStatus update_enrichment_status applied again and again;          *)
(*   SpecEdges  scorer runs over a backlink_edges table that holds rows;   *)
(*   SpecBacklinks  scorer runs with enrich_config_refs runs in between;   *)
(*   SpecEmbed  runs of update_embeddings, completed or interrupted;       *)
(*   SpecParse  parse_github_url applied to one URL;                       *)
(*   SpecConnections  the sqlite connections of /search and /call;         *)
(*   SpecPool   stage 1 of the scorer with its thread pool;                *)
(*   SpecCosts  analyze_service_costs applied to one server.               *)
(***************************************************************************)
EXTENDS Integers, Sequences, FiniteSets, TLC

VARIABLES
    \* ---- the store (sqlite file) ----
    servers_table,      \* the servers (and their package) rows, in the order sqlite scans them
    enrichment_status,  \* enrichment_status rows of this worker's enrichment_type, by server, as the connection sees them
    data_rows,          \* the worker's domain table (github_signals / package_downloads / dependency_signals / config_references)
    committed,          \* what is durable: the last committed enrichment_status and data_rows
    \* ---- one worker run ----
    worker,             \* which enrich_* function this behaviour runs
    pc,                 \* position of the worker
    skip_failures,      \* argument (False when --clean)
    limit,              \* argument (0 = None)
    query,              \* argument --query (<<>> = None)
    token,              \* whether a GitHub token is available
    now,                \* wall clock of the run
    permanent_failures, \* local variable of the worker
    servers,            \* local variable: the candidate list being iterated
    idx,                \* loop position in servers (1-based)
    phase,              \* which request of the current candidate is in flight
    processed,          \* enrich_config_refs: local counter
    conn_open,          \* the sqlite connection is open
    exit_kind,          \* how the last run ended
    runs,               \* number of runs started
    parsable,           \* servers whose repository_url parse_github_url can parse
    month_resp,         \* fetch_npm_downloads: local variable
    cfg,                \* enrich_config_refs: position in MCP_CONFIG_FILES (1-based)
    faults,             \* code-search requests of this behaviour not answered 200
    retry_count,        \* search_github_code: argument
    wait_secs,          \* search_github_code: local variable
    reset_time,         \* search_github_code: local variable (the X-RateLimit-Reset header)
    \* ---- exponential_backoff_request ----
    fpc,                \* position of the fetcher
    attempt,            \* loop variable
    max_retries,        \* argument
    base_delay,         \* argument (seconds)
    response,           \* value returned
    reqLog,             \* outcomes of the requests issued by the current call
    sleepLog,           \* wait_time of every time.sleep of the current call
    \* ---- observation of the current run ----
    fetched,            \* servers for which an outbound request was issued
    outcome,            \* per server: how the worker's fetch ended in this run
    statusAtStart,      \* enrichment_status when the run started
    dataAtStart,        \* data_rows when the run started
    \* ---- the scoring tables of the store ----
    config_references,  \* per server: its config_references rows (config_type, sample_repos)
    dependency_signals, \* per server: its dependency_signals rows
    github_signals,     \* per server: its github_signals row (stars, forks, last_push, repo_owner)
    package_downloads,  \* per server: SUM(downloads_last_week) over its package_downloads rows
    secret_env_vars,    \* per server: number of environment_variables rows with is_secret = 1
    backlink_edges,     \* the backlink_edges rows
    backlink_scores,    \* per server: its backlink_scores row
    market_rankings,    \* per server: its market_rankings row
    \* ---- compute_backlink_scores ----
    spc,                \* position of the scorer
    prefetched,         \* stage 1: what fetch_meta returned for each missing repo
    server_raw_results, \* local variable of the scorer
    \* ---- the search index and one /search request ----
    s_scores,           \* per tool: 1 - cosine distance of its embedding to the query's (NULL: no embedding)
    k_raws,             \* per tool: -bm25 of its tools_fts row for a query it matches (NULL: no match)
    rpc,                \* position of the request
    request,            \* query, page and limit of the request
    candidates,         \* what hybrid_search returned
    search_error,       \* hybrid_search raised
    http_response,      \* what the gateway answered
    \* ---- the connection tables of the store and the process environment ----
    server_remotes,     \* per server: its server_remotes row (the values of headers_json), if any
    server_packages,    \* per server: transport_type of its server_packages rows
    server_local_sources, \* per server: its server_local_sources row (the values of env_json), if any
    os_environ,         \* os.environ: the value of each variable that is set
    \* ---- one POST /call request ----
    cpc,                \* position of call_tool
    call_request,       \* server_name of the request
    call_info,          \* what get_server_connection_info returned
    transport_open,     \* the stdio child process runs / the HTTP stream is open
    session_open,       \* the ClientSession is entered
    call_exc,           \* the exception raised inside the try block, and where
    call_response,      \* what the gateway answered
    transport_args,     \* the headers or env values the transport was opened with
    \* ---- the tools table and GET /servers/<name>/tools ----
    tools_table,        \* per server: the names of its tools rows
    list_response,      \* what the gateway answered to the last listing request
    \* ---- tool extraction (mcp_client.py) ----
    tool_extraction_status, \* per server: its tool_extraction_status row, if any
    utcnow,             \* datetime.utcnow() of the extraction process
    xpc,                \* position of extract_all_tools
    x_servers,          \* local variable servers of extract_all_tools
    x_idx,              \* loop position in servers (1-based)
    x_args,             \* arguments of the run
    x_error,            \* extract_from_server: local variable error of the last attempt
    \* ---- resolve_env_vars applied to one string ----
    res_in,             \* the string
    res_out,            \* resolve_env_vars(res_in), then resolve_env_vars of that
    \* ---- update_enrichment_status called for one (server, enrichment type) after another ----
    status_log,         \* per server: success of each update of its row, oldest first
    \* ---- the embedding tables and one run of update_embeddings ----
    search_docs,        \* tool_id of the tools_search rows
    tool_embeddings,    \* the tool_embeddings rows, as the connection sees them
    committed_embeddings, \* the tool_embeddings rows that are durable
    upc,                \* position of update_embeddings
    u_rows,             \* local variable rows: the tool_id of each
    u_i,                \* loop variable i
    u_batch_size,       \* argument batch_size
    u_encoded,          \* tool_id of the documents the current run passed to model.encode
    u_hist,             \* how each run so far ended, and after how many documents
    \* ---- parse_github_url applied to one URL ----
    p_url,              \* the argument
    p_done,             \* the function has returned
    p_result,           \* what it returned (NULL: None)
    \* ---- the sqlite connections of the gateway process ----
    gpc,                \* position of the request being served
    g_request,          \* the request: its route and, for /call, the server name
    g_status,           \* status of the response about to be returned
    g_served,           \* requests answered so far
    db_connections,     \* sqlite connections that are open
    db_unreferenced,    \* those of them that no variable of a running call refers to
    \* ---- stage 1 of compute_backlink_scores, thread by thread ----
    ppc,                \* position of the coordinating thread
    pool_missing,       \* missing_repos: how many, and for which of them GitHub answers 200
    pool_state,         \* per missing repo: where its future is
    pool_fetches,       \* per missing repo: requests.get calls made for it
    pool_writes,        \* the statements executed on the connection: for which repo, by which thread
    \* ---- analyze_service_costs applied to one server ----
    c_secret_vars,      \* GROUP_CONCAT(var_name) of the server's secret environment variables ('' for none)
    c_done,             \* the loop body has run for the server
    c_row               \* the service_cost_hints row written for it, if any

\* the scoring tables and the scorer, which no enrichment worker touches
scoreVars == <<config_references, dependency_signals, github_signals, package_downloads,
               secret_env_vars, backlink_edges, backlink_scores, market_rankings,
               spc, prefetched, server_raw_results>>
\* the search index and the gateway's /search handler
retrVars == <<s_scores, k_raws, rpc, request, candidates, search_error, http_response>>
workerVars == <<servers_table, enrichment_status, data_rows, committed>>
\* the gateway's POST /call and tool listing, and the tool extraction
connVars == <<server_remotes, server_packages, server_local_sources, os_environ>>
callVars == <<cpc, call_request, call_info, transport_open, session_open, call_exc,
              call_response, transport_args>>
listVars == <<tools_table, list_response>>
extrVars == <<tool_extraction_status, utcnow, xpc, x_servers, x_idx, x_args, x_error>>
resVars  == <<res_in, res_out>>
\* the offline scripts modelled apart from the workers' runs
embedVars == <<search_docs, tool_embeddings, committed_embeddings, upc, u_rows, u_i,
               u_batch_size, u_encoded, u_hist>>
parseVars == <<p_url, p_done, p_result>>
dbVars == <<gpc, g_request, g_status, g_served, db_connections, db_unreferenced>>
poolVars == <<ppc, pool_missing, pool_state, pool_fetches, pool_writes>>
costVars == <<c_secret_vars, c_done, c_row>>
offlineVars == <<status_log, embedVars, parseVars, dbVars, poolVars, costVars>>
gateVars == <<connVars, callVars, listVars, extrVars, resVars, offlineVars>>
storeVars == <<workerVars, scoreVars, retrVars, gateVars>>
runVars   == <<worker, pc, skip_failures, limit, query, token, now, permanent_failures,
               servers, idx, phase, processed, conn_open, exit_kind, runs, parsable, month_resp,
               cfg, retry_count, wait_secs, reset_time, faults>>
\* the locals of search_github_code and of the loop over MCP_CONFIG_FILES
searchVars == <<cfg, retry_count, wait_secs, reset_time, faults>>
\* what a run fixes when it starts
runArgs   == <<worker, skip_failures, limit, query, token, now, permanent_failures,
               servers, runs, parsable, conn_open, exit_kind>>
fetchVars == <<fpc, attempt, max_retries, base_delay, response, reqLog, sleepLog>>
obsVars   == <<fetched, outcome, statusAtStart, dataAtStart>>
vars      == <<storeVars, runVars, fetchVars, obsVars>>

(***************************************************************************)
(* Bounds                                                                  *)
(***************************************************************************)
MaxServers == 2        \* servers in the store under Spec and SpecFetch
MaxRuns == 2           \* worker runs per behaviour
MaxRetriesArg == 3     \* largest max_retries argument tried under SpecFetch
MaxFaults == 2         \* code-search requests per behaviour not answered 200, under SpecConfig
MaxSearchFaults == 4   \* the same under SpecSearch: enough for a search to use up its retries
MaxTools == 2          \* tools in the search index under SpecRetrieve
MaxPieces == 3         \* pieces of a string under SpecResolve
MaxAttempts == 3       \* connection attempts per behaviour under SpecExtract
MaxUpdates == 4        \* status updates per server under SpecStatus
MaxDocs == 3           \* tools_search rows under SpecEmbed
MaxEmbedRuns == 3      \* runs of update_embeddings per behaviour
MaxRepoLen == 3        \* characters of a repository name under SpecParse
MaxRequests == 3       \* requests served per behaviour under SpecConnections
MaxSecrets == 2        \* secret environment variables of the server under SpecCosts
MaxMissing == 11       \* missing repos under SpecPool: one more than the pool has threads

(***************************************************************************)
(* Outcomes of one requests.get                                            *)
(***************************************************************************)
Resp(code) == [kind |-> "response", status_code |-> code]
TimeoutExc == [kind |-> "timeout", status_code |-> 0]    \* requests.exceptions.Timeout
OtherExc   == [kind |-> "exception", status_code |-> 0]  \* any other Exception
None       == [kind |-> "none", status_code |-> 0]       \* Python None

\* Status codes the model's sources answer: one per branch of the fetcher,
\* two for the retry tuple, and 501 as a 5xx outside it.
HttpStatuses == {200, 404, 403, 429, 500, 501, 503}
Outcomes == {Resp(c) : c \in HttpStatuses} \cup {TimeoutExc, OtherExc}

\* What a source answers a worker under Spec: one outcome of each kind a worker
\* can tell apart (a 200, a response returned at once, a status retried and
\* then returned, an exception retried and then given up on)
SourceOutcomes == {Resp(200), Resp(404), Resp(429), TimeoutExc}

\* enrich.py:138  `response.status_code in (429, 500, 502, 503, 504)`
RetryStatuses == {429, 500, 502, 503, 504}

\* enrich.py:140 / 155  wait_time = base_delay * (2 ** attempt)
WaitTime(base, att) == base * (2 ^ att)

\* A mutant of Decide: 404 handled like a rate limit.
Decide_404Retried(o, att, maxr) ==
    IF o.kind = "response"
    THEN IF o.status_code = 200
         THEN [act |-> "return", value |-> o]
         ELSE IF o.status_code \in RetryStatuses \cup {404}
              THEN IF att < maxr
                   THEN [act |-> "sleep", value |-> None]
                   ELSE [act |-> "return", value |-> o]
              ELSE [act |-> "return", value |-> o]
    ELSE IF o.kind = "timeout"
         THEN IF att < maxr
              THEN [act |-> "sleep", value |-> None]
              ELSE [act |-> "return", value |-> None]
         ELSE [act |-> "return", value |-> None]

\* One iteration of the loop of exponential_backoff_request, for outcome o of
\* requests.get on attempt att: return a value, or sleep and continue.
Decide(o, att, maxr) ==
    IF o.kind = "response"
    THEN IF o.status_code = 200
         THEN [act |-> "return", value |-> o]
         ELSE IF o.status_code = 404
              THEN [act |-> "return", value |-> o]
              ELSE IF o.status_code \in RetryStatuses
                   THEN IF att < maxr
                        THEN [act |-> "sleep", value |-> None]
                        ELSE [act |-> "return", value |-> o]
                   ELSE [act |-> "return", value |-> o]
    ELSE IF o.kind = "timeout"
         THEN IF att < maxr
              THEN [act |-> "sleep", value |-> None]
              ELSE [act |-> "return", value |-> None]
         ELSE [act |-> "return", value |-> None]

\* requests.get answers with an outcome of the set S.
FetchRequestFrom(S) ==
    /\ fpc = "request"
    /\ \E o \in S :
         LET d == Decide(o, attempt, max_retries) IN
         /\ reqLog' = Append(reqLog, o)
         /\ IF d.act = "sleep"
            THEN /\ fpc' = "sleep"
                 /\ response' = response
            ELSE /\ fpc' = "returned"
                 /\ response' = d.value
    /\ fetched' = IF pc = "fetch" THEN fetched \cup {servers[idx]} ELSE fetched
    /\ UNCHANGED <<attempt, max_retries, base_delay, sleepLog>>
    /\ UNCHANGED <<storeVars, runVars, outcome, statusAtStart, dataAtStart>>

\* time.sleep(wait_time); continue
FetchSleep ==
    /\ fpc = "sleep"
    /\ sleepLog' = Append(sleepLog, WaitTime(base_delay, attempt))
    /\ attempt' = attempt + 1
    /\ fpc' = "request"
    /\ UNCHANGED <<max_retries, base_delay, response, reqLog>>
    /\ UNCHANGED <<storeVars, runVars, obsVars>>

\* The fetcher's variables at the start of a call.
CallFetcher(maxr, base) ==
    /\ fpc' = "request"
    /\ attempt' = 0
    /\ max_retries' = maxr
    /\ base_delay' = base
    /\ response' = None
    /\ reqLog' = <<>>
    /\ sleepLog' = <<>>


(***************************************************************************)
(* Text: Python str values are sequences of one-character strings          *)
(***************************************************************************)
\* str.lower() on the model's alphabet
UpperCase == <<"A","B","C","D","E","F","G","H","I","J","K","L","M",
               "N","O","P","Q","R","S","T","U","V","W","X","Y","Z">>
LowerCase == <<"a","b","c","d","e","f","g","h","i","j","k","l","m",
               "n","o","p","q","r","s","t","u","v","w","x","y","z">>
LowerChar(c) ==
    IF \E k \in DOMAIN UpperCase : UpperCase[k] = c
    THEN LowerCase[CHOOSE k \in DOMAIN UpperCase : UpperCase[k] = c]
    ELSE c
Lower(s) == [i \in 1..Len(s) |-> LowerChar(s[i])]

\* Python `pat in s`
Contains(pat, s) ==
    \E i \in 1..(Len(s) - Len(pat) + 1) : SubSeq(s, i, i + Len(pat) - 1) = pat

NoText == <<>>   \* None / ""

\* The failure_reason literals the workers pass (enrich.py:647, 759, 869, 1246)
MsgPackageNotFound == <<"p","a","c","k","a","g","e","_","n","o","t","_","f","o","u","n","d">>
MsgImageNotFound   == <<"i","m","a","g","e","_","n","o","t","_","f","o","u","n","d">>

\* The substrings categorize_enrichment_failure looks for (enrich.py:194-209)
PatNotFound     == <<"n","o","t"," ","f","o","u","n","d">>
Pat404          == <<"4","0","4">>
PatDoesNotExist == <<"d","o","e","s"," ","n","o","t"," ","e","x","i","s","t">>
PatPackageNotFound == <<"p","a","c","k","a","g","e"," ","n","o","t"," ","f","o","u","n","d">>
PatRepoNotFound == <<"r","e","p","o","s","i","t","o","r","y"," ","n","o","t"," ","f","o","u","n","d">>
PatTimeout      == <<"t","i","m","e","o","u","t">>
PatRateLimit    == <<"r","a","t","e"," ","l","i","m","i","t">>
PatConnection   == <<"c","o","n","n","e","c","t","i","o","n">>

\* f"server_error_{status_code}"
ServerErrorReason(code) ==
    CASE code = 500 -> "server_error_500"
      [] code = 501 -> "server_error_501"
      [] code = 503 -> "server_error_503"
      [] OTHER -> "server_error_5xx"

\* categorize_enrichment_failure(status_code, error_message) -> (status, failure_reason);
\* status_code 0 and error_message <<>> stand for None (both falsy)
categorize_enrichment_failure(status_code, error_message) ==
    LET error_lower == Lower(error_message)
        byMessage ==
            IF error_message # NoText
            THEN IF Contains(PatNotFound, error_lower) \/ Contains(Pat404, error_lower)
                 THEN [status |-> "permanent_failure", failure_reason |-> "not_found"]
                 ELSE IF Contains(PatDoesNotExist, error_lower)
                 THEN [status |-> "permanent_failure", failure_reason |-> "does_not_exist"]
                 ELSE IF Contains(PatPackageNotFound, error_lower)
                 THEN [status |-> "permanent_failure", failure_reason |-> "package_not_found"]
                 ELSE IF Contains(PatRepoNotFound, error_lower)
                 THEN [status |-> "permanent_failure", failure_reason |-> "repo_not_found"]
                 ELSE IF Contains(PatTimeout, error_lower)
                 THEN [status |-> "transient_failure", failure_reason |-> "timeout"]
                 ELSE IF Contains(PatRateLimit, error_lower)
                 THEN [status |-> "transient_failure", failure_reason |-> "rate_limited"]
                 ELSE IF Contains(PatConnection, error_lower)
                 THEN [status |-> "transient_failure", failure_reason |-> "connection_error"]
                 ELSE [status |-> "transient_failure", failure_reason |-> "unknown"]
            ELSE [status |-> "transient_failure", failure_reason |-> "unknown"]
    IN  IF status_code # 0
        THEN IF status_code = 404
             THEN [status |-> "permanent_failure", failure_reason |-> "not_found_404"]
             ELSE IF status_code \in {401, 403}
             THEN [status |-> "permanent_failure", failure_reason |-> "auth_required"]
             ELSE IF status_code = 429
             THEN [status |-> "transient_failure", failure_reason |-> "rate_limited"]
             ELSE IF status_code >= 500
             THEN [status |-> "transient_failure", failure_reason |-> ServerErrorReason(status_code)]
             ELSE byMessage
        ELSE byMessage

(***************************************************************************)
(* Time: a timestamp is a calendar day and a time of day                   *)
(***************************************************************************)
TimesOfDay == {0, 1}
NoTime == [day |-> -1, tod |-> 0]   \* NULL

\* datetime.now(timezone.utc).isoformat() is "<date>T<time>+00:00"; SQLite's
\* datetime('now', '-N days') is "<date> <time>".  The query compares the two
\* as text: date, then the separator, then the time.
IsoText(t)    == <<t.day, "T", t.tod>>
SqliteText(t) == <<t.day, " ", t.tod>>
CharCode(c) == IF c = " " THEN 32 ELSE 84   \* ord(" "), ord("T")
TextLess(a, b) ==
    \/ a[1] < b[1]
    \/ a[1] = b[1] /\ CharCode(a[2]) < CharCode(b[2])
    \/ a[1] = b[1] /\ CharCode(a[2]) = CharCode(b[2]) /\ a[3] < b[3]

\* datetime('now', '-N days')
DaysAgo(t, n) == [t EXCEPT !.day = @ - n]

\* Chronological order, for stating properties
Earlier(a, b) == a.day < b.day \/ (a.day = b.day /\ a.tod < b.tod)

(***************************************************************************)
(* The store                                                               *)
(***************************************************************************)
Range(f) == {f[i] : i \in DOMAIN f}

Workers == {"github", "npm", "pypi", "docker", "dependents", "config_refs"}

\* The keys of MCP_CONFIG_FILES, in dict order
MCP_CONFIG_FILES == <<"claude_desktop", "cursor", "windsurf", "cline">>

\* servers.name; the names sort (binary collation) in the order of the ids
Name(s) == CASE s = 1 -> <<"A", "b">> [] s = 2 -> <<"a">> [] OTHER -> [i \in 1..s |-> "b"]

\* What the source holds for the server's repo / package (the number a 200 carries)
SourceCount(s) == s

NoRow == [status |-> "absent", failure_reason |-> "NULL",
          last_attempted_at |-> NoTime, retry_count |-> 0]
NoData == [enriched_at |-> NoTime, value |-> <<>>, id |-> 0]
\* config_references holds one row per (server, config_type)
NoConfigRows == [i \in 1..Len(MCP_CONFIG_FILES) |-> NoData]
\* A server without rows in the worker's domain table
NoDataOf(w) == IF w = "config_refs" THEN NoConfigRows ELSE NoData

\* update_enrichment_status(conn, server_name, enrichment_type, success, failure_reason):
\* the table after the upsert (the commit is part of the calling action)
update_enrichment_status_CountKept(es, s, success, failure_reason, t) ==
    LET c == categorize_enrichment_failure(0, failure_reason) IN
    [es EXCEPT ![s] = [status |-> IF success THEN "success" ELSE c.status,
                       failure_reason |-> IF success THEN "NULL" ELSE c.failure_reason,
                       last_attempted_at |-> t,
                       retry_count |-> IF success THEN es[s].retry_count
                                       ELSE es[s].retry_count + 1]]
update_enrichment_status(es, s, success, failure_reason, t) ==
    IF success
    THEN [es EXCEPT ![s] = [status |-> "success", failure_reason |-> "NULL",
                            last_attempted_at |-> t, retry_count |-> 0]]
    ELSE LET c == categorize_enrichment_failure(0, failure_reason) IN
         [es EXCEPT ![s] = [status |-> c.status, failure_reason |-> c.failure_reason,
                            last_attempted_at |-> t,
                            retry_count |-> IF es[s] = NoRow THEN 1 ELSE es[s].retry_count + 1]]

\* get_permanent_failures(conn, enrichment_type)
get_permanent_failures(es) == {s \in DOMAIN es : es[s].status = "permanent_failure"}

\* Freshness window of each worker's candidate query, in days
Window(w) == CASE w \in {"github", "dependents", "config_refs"} -> 7 [] OTHER -> 1

\* `x.enriched_at < datetime('now', '-N days')`
Stale(row, t, w) == TextLess(IsoText(row.enriched_at), SqliteText(DaysAgo(t, Window(w))))

\* The WHERE clause over the LEFT JOIN with the domain table:
\* `x.enriched_at IS NULL OR x.enriched_at < datetime('now', '-N days')`.
\* A server without rows joins to one all-NULL row; a server of
\* config_references joins to each of its rows, and GROUP BY keeps it when any
\* of them passes.
NeedsEnrichment_WindowIgnored(row, t, w) == TRUE
NeedsEnrichment(row, t, w) ==
    IF w = "config_refs"
    THEN \/ \A i \in DOMAIN row : row[i] = NoData
         \/ \E i \in DOMAIN row : row[i] # NoData /\ Stale(row[i], t, w)
    ELSE \/ row = NoData
         \/ Stale(row, t, w)


(***************************************************************************)
(* Candidate selection                                                     *)
(***************************************************************************)
ServerSet == Range(servers_table)

\* enrich_config_refs: `if query: sql += f" AND s.name LIKE '%{query}%'"`
\* (LIKE ignores the case of ASCII letters)
SqlNameFilter(w, q, s) ==
    w = "config_refs" /\ q # NoText => Contains(Lower(q), Lower(Name(s)))

\* cursor.fetchall() of a candidate query with `LIMIT {limit}` appended `if limit`:
\* the rows that satisfy the WHERE clause, in scan order (for config_refs,
\* ORDER BY stars, name: github_signals is empty there and the names sort in
\* scan order), cut after `lim` rows
FetchAll(w, t, lim, q) ==
    LET rows == SelectSeq(servers_table,
                          LAMBDA s : NeedsEnrichment(data_rows[s], t, w) /\ SqlNameFilter(w, q, s))
    IN  IF lim # 0 /\ lim < Len(rows) THEN SubSeq(rows, 1, lim) ELSE rows

\* The text of the SQL statement enrich_npm / enrich_pypi assign to `query`
\* (enrich.py:584, 697), abbreviated to its first words
SqlQueryText == <<"S","E","L","E","C","T"," ","D","I","S","T","I","N","C","T">>
SqlLimitText == <<" ","L","I","M","I","T">>

\* What the variable `query` holds when the worker reaches its name filter
QueryAtFilter(w, q, lim) ==
    IF w \in {"npm", "pypi"}
    THEN IF lim # 0 THEN SqlQueryText \o SqlLimitText ELSE SqlQueryText
    ELSE q

\* The name filter of each worker, on one server
PassesQueryFilter(w, q, lim, s) ==
    LET qf == QueryAtFilter(w, q, lim) IN
    CASE w = "github" ->
           IF qf = NoText THEN TRUE
           ELSE IF qf[1] = "="
                THEN Lower(Tail(qf)) = Lower(Name(s))
                ELSE Contains(Lower(qf), Lower(Name(s)))
      [] w \in {"npm", "pypi"} ->
           IF qf = NoText THEN TRUE ELSE Contains(Lower(qf), Lower(Name(s)))
      [] OTHER -> TRUE     \* enrich_docker, enrich_dependents, enrich_config_refs: none in Python

\* The candidate list of a run: the rows of the candidate query, minus the
\* permanent failures, minus the names the filter rejects (order kept)
Candidates(rows, pf, w, q, lim) ==
    SelectSeq(rows, LAMBDA s : s \notin pf /\ PassesQueryFilter(w, q, lim, s))

\* Arguments tried: --limit (0 = absent), --query
Limits == {0, 1}
Queries == {NoText, <<"b">>, <<"=", "a">>}

\* Arguments of exponential_backoff_request at each call site
FetchMaxRetries(w, ph) ==
    CASE w = "github" -> 3
      [] w = "npm" -> IF ph = "week" THEN 2 ELSE 1
      [] w = "dependents" -> 3
      [] OTHER -> 2
FetchBaseDelay(w, ph) ==
    CASE w = "github" -> 5
      [] w = "npm" -> IF ph = "week" THEN 5 ELSE 2
      [] w = "dependents" -> 30
      [] OTHER -> 5

FirstPhase(w) == IF w = "npm" THEN "week" ELSE "main"

\* response is not None and response.status_code == 200
Is200(r) == r.kind = "response" /\ r.status_code = 200

(***************************************************************************)
(* Worker actions                                                          *)
(***************************************************************************)
Commit == committed' = [enrichment_status |-> enrichment_status', data_rows |-> data_rows']

\* search_github_code: the wait before the retry of a 403.  h is the
\* X-RateLimit-Reset header: absent, not an integer, or an epoch second
NoHeader == [kind |-> "absent", value |-> 0]
Min(a, b) == IF a < b THEN a ELSE b
Max(a, b) == IF a > b THEN a ELSE b
Epoch(t) == t.day * 86400 + t.tod          \* int(time.time())
\* A mutant of SearchWait: no 30 second floor.
SearchWait_NoFloor(h, retry, clock) ==
    IF h.kind = "int"
    THEN Min(h.value - clock + 5, 120)
    ELSE 60 * (2 ^ retry)

SearchWait(h, retry, clock) ==
    IF h.kind = "int"
    THEN Min(Max(h.value - clock + 5, 30), 120)
    ELSE 60 * (2 ^ retry)

SearchIdle ==
    /\ cfg' = 1
    /\ retry_count' = 0
    /\ wait_secs' = 0
    /\ reset_time' = NoHeader
    /\ faults' = faults

FetcherIdle ==
    /\ fpc' = "idle"
    /\ attempt' = 0
    /\ max_retries' = 0
    /\ base_delay' = 0
    /\ response' = None
    /\ reqLog' = <<>>
    /\ sleepLog' = <<>>

\* enrich_config_refs: `if not token: ... conn.close(); return`
NoToken == worker = "config_refs" /\ ~token

\* enrich_<worker>(...) up to the loop: open the store, read the permanent
\* failures, run the candidate query, filter.  The first run of a behaviour
\* takes any --limit and --query, later runs none; a later run starts at once
\* or after the worker's window has passed.
StartRun ==
    /\ pc = "idle"
    /\ runs < MaxRuns
    /\ \E sf \in BOOLEAN,
          lim \in (IF runs = 0 THEN Limits ELSE {0}),
          q \in (IF runs = 0 THEN Queries ELSE {NoText}),
          el \in (IF runs = 0 THEN {0} ELSE {0, Window(worker) + 1}) :
         LET t  == [now EXCEPT !.day = @ + el]
             pf == IF sf THEN get_permanent_failures(enrichment_status) ELSE {}
         IN  /\ now' = t
             /\ skip_failures' = sf
             /\ limit' = lim
             /\ query' = q
             /\ permanent_failures' = pf
             /\ servers' = IF NoToken THEN <<>>
                           ELSE Candidates(FetchAll(worker, t, lim, q), pf, worker, q, lim)
    /\ idx' = 1
    /\ pc' = IF NoToken THEN "done" ELSE "loop"
    /\ conn_open' = ~NoToken
    /\ exit_kind' = IF NoToken THEN "returned" ELSE "running"
    /\ runs' = runs + 1
    /\ processed' = 0
    /\ fetched' = {}
    /\ outcome' = [s \in ServerSet |-> "none"]
    /\ statusAtStart' = enrichment_status
    /\ dataAtStart' = data_rows
    /\ UNCHANGED <<worker, token, phase, parsable, month_resp, searchVars>>
    /\ UNCHANGED <<storeVars, fetchVars>>

\* enrich_github: `if not parsed: continue`
SkipUnparsed ==
    /\ pc = "loop"
    /\ idx <= Len(servers)
    /\ worker = "github"
    /\ servers[idx] \notin parsable
    /\ idx' = idx + 1
    /\ UNCHANGED <<runArgs, pc, phase, processed, month_resp, searchVars>>
    /\ UNCHANGED <<storeVars, fetchVars, obsVars>>

\* Top of the loop body: call the source for the next candidate
BeginItem ==
    /\ pc = "loop"
    /\ idx <= Len(servers)
    /\ worker # "config_refs"
    /\ worker = "github" => servers[idx] \in parsable
    /\ phase' = FirstPhase(worker)
    /\ CallFetcher(FetchMaxRetries(worker, FirstPhase(worker)),
                   FetchBaseDelay(worker, FirstPhase(worker)))
    /\ pc' = "fetch"
    /\ UNCHANGED <<runArgs, idx, processed, month_resp, searchVars>>
    /\ UNCHANGED <<storeVars, obsVars>>

\* `id INTEGER PRIMARY KEY AUTOINCREMENT` of the domain tables: a row inserted
\* without an id gets one above every id of the table.  INSERT OR REPLACE
\* deletes the row of the same key first, so the row it writes is a new row.
RowIds(rows) ==
    IF worker = "config_refs"
    THEN UNION {{rows[s][i].id : i \in DOMAIN rows[s]} : s \in DOMAIN rows}
    ELSE {rows[s].id : s \in DOMAIN rows}
Autoincrement(rows) == 1 + (CHOOSE m \in RowIds(rows) : \A n \in RowIds(rows) : n <= m)
Inserted(row, id) == [enriched_at |-> row.enriched_at, value |-> row.value, id |-> id]

\* The domain row a worker writes from the fetched data
DataRow(w, s, t, month_ok, day_ok) ==
    [enriched_at |-> t,
     value |-> IF w = "npm"
               THEN <<IF day_ok THEN SourceCount(s) ELSE 0,
                      SourceCount(s),
                      IF month_ok THEN SourceCount(s) ELSE 0>>
               ELSE <<SourceCount(s)>>]

\* The store after the worker handled fetched data for s: INSERT OR REPLACE,
\* then update_enrichment_status(..., True) where the worker calls it
AfterSuccess(w, s, t, month_ok, day_ok) ==
    [data_rows |-> [data_rows EXCEPT ![s] = Inserted(DataRow(w, s, t, month_ok, day_ok),
                                                      Autoincrement(data_rows))],
     enrichment_status |->
        IF w \in {"npm", "pypi", "docker"}
        THEN update_enrichment_status(enrichment_status, s, TRUE, NoText, t)
        ELSE enrichment_status,
     commits |-> w \in {"npm", "pypi", "docker"}]

\* The store after the worker handled a failed fetch for s:
\* update_enrichment_status(..., False, <literal>) where the worker calls it
AfterFailure(w, s, t) ==
    [data_rows |-> data_rows,
     enrichment_status |->
        CASE w \in {"npm", "pypi", "dependents"} ->
               update_enrichment_status(enrichment_status, s, FALSE, MsgPackageNotFound, t)
          [] w = "docker" ->
               update_enrichment_status(enrichment_status, s, FALSE, MsgImageNotFound, t)
          [] OTHER -> enrichment_status,
     commits |-> w # "github"]

\* Apply a store change; update_enrichment_status ends with conn.commit()
ApplyStore(st) ==
    /\ data_rows' = st.data_rows
    /\ enrichment_status' = st.enrichment_status
    /\ IF st.commits THEN Commit ELSE committed' = committed

\* fetch_npm_downloads goes on to its next request: after a 200 for last-week,
\* and after any answer for last-month
NpmContinues ==
    /\ worker = "npm"
    /\ \/ phase = "week" /\ Is200(response)
       \/ phase = "month"

\* exponential_backoff_request has returned to the worker's fetch function:
\* either that function issues its next request, or the loop body persists the
\* row and / or the status
HandleResult ==
    /\ pc = "fetch"
    /\ fpc = "returned"
    /\ IF NpmContinues
       THEN /\ phase' = IF phase = "week" THEN "month" ELSE "day"
            /\ month_resp' = IF phase = "month" THEN response ELSE month_resp
            /\ CallFetcher(FetchMaxRetries(worker, "month"), FetchBaseDelay(worker, "month"))
            /\ UNCHANGED <<pc, outcome, storeVars>>
       ELSE LET s  == servers[idx]
                ok == IF worker = "npm" THEN phase = "day" ELSE Is200(response)
            IN  /\ ApplyStore(IF ok
                              THEN AfterSuccess(worker, s, now, Is200(month_resp), Is200(response))
                              ELSE AfterFailure(worker, s, now))
                /\ outcome' = [outcome EXCEPT ![s] = IF ok THEN "ok" ELSE "failed"]
                /\ pc' = "polite"
                /\ UNCHANGED <<servers_table, scoreVars, retrVars, gateVars, phase, month_resp, fetchVars>>
    /\ UNCHANGED <<runArgs, idx, processed, searchVars>>
    /\ UNCHANGED <<fetched, statusAtStart, dataAtStart>>

\* time.sleep(<politeness delay>) at the end of the loop body
PoliteSleep ==
    /\ pc = "polite"
    /\ worker # "config_refs"
    /\ idx' = idx + 1
    /\ pc' = "loop"
    /\ phase' = "main"
    /\ month_resp' = None
    /\ FetcherIdle
    /\ UNCHANGED <<runArgs, processed, searchVars>>
    /\ UNCHANGED <<storeVars, obsVars>>

\* enrich_config_refs, top of the loop body: the search for the first config file
BeginSearches ==
    /\ pc = "loop"
    /\ idx <= Len(servers)
    /\ worker = "config_refs"
    /\ cfg' = 1
    /\ retry_count' = 0
    /\ pc' = "search"
    /\ UNCHANGED <<runArgs, idx, phase, processed, month_resp, wait_secs, reset_time, faults>>
    /\ UNCHANGED <<storeVars, fetchVars, obsVars>>

\* search_github_code: requests.get answers with an outcome of S (a 403 with a
\* header of H).  A 403 before the third retry waits and recurses; anything
\* else returns (total, repos), and the loop body stores the row whatever the
\* result.  At most B requests of a behaviour are not answered 200
SearchRequestFrom(S, H, B) ==
    /\ pc = "search"
    /\ \E o \in (IF faults < B THEN S ELSE S \cap {Resp(200)}) :
       \E h \in (IF o.kind = "response" /\ o.status_code = 403 THEN H ELSE {NoHeader}) :
         LET s == servers[idx]
             total == IF Is200(o) THEN SourceCount(s) ELSE 0
         IN  /\ reqLog' = Append(reqLog, o)
             /\ fetched' = fetched \cup {s}
             /\ faults' = IF Is200(o) THEN faults ELSE faults + 1
             /\ IF o.kind = "response" /\ o.status_code = 403 /\ retry_count < 3
                THEN /\ reset_time' = h
                     /\ wait_secs' = SearchWait(h, retry_count, Epoch(now))
                     /\ pc' = "search_wait"
                     /\ UNCHANGED <<storeVars, outcome>>
                ELSE /\ data_rows' = [data_rows EXCEPT ![s][cfg] =
                                          Inserted([enriched_at |-> now, value |-> <<total>>],
                                                   Autoincrement(data_rows))]
                     /\ outcome' = [outcome EXCEPT ![s] = IF Is200(o) THEN "ok" ELSE "failed"]
                     /\ pc' = "polite"
                     /\ UNCHANGED <<servers_table, scoreVars, retrVars, gateVars, enrichment_status, committed, wait_secs, reset_time>>
    /\ UNCHANGED <<runArgs, idx, phase, processed, month_resp, cfg, retry_count>>
    /\ UNCHANGED <<fpc, attempt, max_retries, base_delay, response, sleepLog>>
    /\ UNCHANGED <<statusAtStart, dataAtStart>>

\* search_github_code: time.sleep(wait_secs); return search_github_code(query, token, retry_count + 1)
SearchSleep ==
    /\ pc = "search_wait"
    /\ sleepLog' = Append(sleepLog, wait_secs)
    /\ retry_count' = retry_count + 1
    /\ pc' = "search"
    /\ UNCHANGED <<runArgs, idx, phase, processed, month_resp, cfg, wait_secs, reset_time, faults>>
    /\ UNCHANGED <<fpc, attempt, max_retries, base_delay, response, reqLog>>
    /\ UNCHANGED <<storeVars, obsVars>>

\* enrich.py:1481  `if processed % 10 == 0: conn.commit()`
CommitEvery == 10

\* enrich_config_refs: time.sleep(2.5), then the search for the next config
\* file or, after the last one, the end of the loop body: processed += 1
\* and the periodic commit
SearchPoliteSleep ==
    /\ pc = "polite"
    /\ worker = "config_refs"
    /\ reqLog' = <<>>
    /\ sleepLog' = <<>>
    /\ retry_count' = 0
    /\ wait_secs' = 0
    /\ reset_time' = NoHeader
    /\ IF cfg < Len(MCP_CONFIG_FILES)
       THEN /\ cfg' = cfg + 1
            /\ pc' = "search"
            /\ UNCHANGED <<idx, processed, committed>>
       ELSE /\ cfg' = 1
            /\ pc' = "loop"
            /\ idx' = idx + 1
            /\ processed' = processed + 1
            /\ committed' = IF (processed + 1) % CommitEvery = 0
                            THEN [enrichment_status |-> enrichment_status, data_rows |-> data_rows]
                            ELSE committed
    /\ UNCHANGED <<runArgs, phase, month_resp, faults>>
    /\ UNCHANGED <<fpc, attempt, max_retries, base_delay, response>>
    /\ UNCHANGED <<servers_table, scoreVars, retrVars, gateVars, enrichment_status, data_rows, obsVars>>

\* After the loop: conn.commit(); conn.close(); return
FinishRun ==
    /\ pc = "loop"
    /\ idx > Len(servers)
    /\ UNCHANGED <<enrichment_status, data_rows, servers_table, scoreVars, retrVars, gateVars>>
    /\ Commit
    /\ conn_open' = FALSE
    /\ exit_kind' = "returned"
    /\ pc' = "done"
    /\ UNCHANGED <<worker, skip_failures, limit, query, token, now, permanent_failures,
                   servers, runs, parsable, idx, phase, processed, month_resp, searchVars>>
    /\ UNCHANGED <<fetchVars, obsVars>>

\* The process is gone: its arguments and locals with it
ProcessGone ==
    /\ pc' = "idle"
    /\ skip_failures' = TRUE
    /\ limit' = 0
    /\ query' = NoText
    /\ permanent_failures' = {}
    /\ servers' = <<>>
    /\ idx' = 1
    /\ phase' = "main"
    /\ month_resp' = None
    /\ processed' = 0
    /\ fetched' = {}
    /\ outcome' = [s \in ServerSet |-> "none"]
    /\ statusAtStart' = enrichment_status'
    /\ dataAtStart' = data_rows'
    /\ FetcherIdle
    /\ SearchIdle
    /\ UNCHANGED <<worker, token, now, runs, parsable>>

\* The command ends after the worker returned
Exit ==
    /\ pc = "done"
    /\ UNCHANGED <<storeVars, conn_open, exit_kind>>
    /\ ProcessGone

\* Ctrl-C while a worker without a SIGINT handler runs: KeyboardInterrupt is
\* not an Exception, nothing catches it, and the process ends; the open
\* transaction is never committed and the connection never closed by the code
Interrupt ==
    /\ pc \in {"loop", "fetch", "polite"}
    /\ worker # "config_refs"
    /\ enrichment_status' = committed.enrichment_status
    /\ data_rows' = committed.data_rows
    /\ exit_kind' = "killed"
    /\ UNCHANGED <<committed, servers_table, scoreVars, retrVars, gateVars, conn_open>>
    /\ ProcessGone

\* Ctrl-C while enrich_config_refs runs: its SIGINT handler commits, closes
\* the connection and calls exit(0)
handle_interrupt ==
    /\ pc \in {"loop", "search", "search_wait", "polite"}
    /\ worker = "config_refs"
    /\ UNCHANGED <<enrichment_status, data_rows, servers_table, scoreVars, retrVars, gateVars>>
    /\ Commit
    /\ conn_open' = FALSE
    /\ exit_kind' = "exit0"
    /\ ProcessGone

(***************************************************************************)
(* Initial states and specifications                                       *)
(***************************************************************************)
\* What the store file can hold for one server when a behaviour starts, at
\* time t: no rows, a domain row (with the success row of the workers that
\* write one), or a permanent_failure row, a status the table's CHECK admits
\* (db.py:266).  `old` is past every window; `edge` is older than the
\* worker's window by its time of day only.
InitialRows(w, s, t) ==
    LET old  == [day |-> 0, tod |-> 0]
        edge == [day |-> t.day - Window(w), tod |-> 0]
        ok(at)  == IF w \in {"github", "dependents"}
                   THEN NoRow
                   ELSE [status |-> "success", failure_reason |-> "NULL",
                         last_attempted_at |-> at, retry_count |-> 0]
    IN  { [data |-> NoData, status |-> NoRow],
          [data |-> Inserted(DataRow(w, s, old, TRUE, TRUE), s),  status |-> ok(old)],
          [data |-> Inserted(DataRow(w, s, edge, TRUE, TRUE), s), status |-> ok(edge)],
          [data |-> Inserted(DataRow(w, s, t, TRUE, TRUE), s),    status |-> ok(t)],
          [data |-> NoData, status |-> [status |-> "permanent_failure", failure_reason |-> "not_found",
                                        last_attempted_at |-> old, retry_count |-> 1]] }

\* The same for enrich_config_refs, which has one config_references row per
\* config file and writes no enrichment_status row
InitialConfigRows(s, t) ==
    LET old  == [day |-> 0, tod |-> 0]
        edge == [day |-> t.day - Window("config_refs"), tod |-> 0]
        all(at) == [i \in 1..Len(MCP_CONFIG_FILES) |->
                       [enriched_at |-> at, value |-> <<SourceCount(s)>>,
                        id |-> Len(MCP_CONFIG_FILES) * (s - 1) + i]]
    IN  { [data |-> NoConfigRows, status |-> NoRow],
          [data |-> all(old),  status |-> NoRow],
          [data |-> all(edge), status |-> NoRow],
          [data |-> all(t),    status |-> NoRow],
          [data |-> NoConfigRows, status |-> [status |-> "permanent_failure", failure_reason |-> "not_found",
                                              last_attempted_at |-> old, retry_count |-> 1]] }

StoreProfiles(w, s, t) == IF w = "config_refs" THEN InitialConfigRows(s, t) ELSE InitialRows(w, s, t)

InitRun ==
    /\ pc = "idle"
    /\ skip_failures = TRUE
    /\ limit = 0
    /\ query = NoText
    /\ cfg = 1
    /\ retry_count = 0
    /\ wait_secs = 0
    /\ reset_time = NoHeader
    /\ faults = 0
    /\ permanent_failures = {}
    /\ servers = <<>>
    /\ idx = 1
    /\ phase = "main"
    /\ month_resp = None
    /\ processed = 0
    /\ conn_open = FALSE
    /\ exit_kind = "none"
    /\ runs = 0
    /\ fetched = {}
    /\ outcome = [s \in ServerSet |-> "none"]
    /\ statusAtStart = enrichment_status
    /\ dataAtStart = data_rows

InitFetcher ==
    /\ fpc = "idle"
    /\ attempt = 0
    /\ max_retries = 0
    /\ base_delay = 0
    /\ response = None
    /\ reqLog = <<>>
    /\ sleepLog = <<>>

InitScorerIdle ==
    /\ spc = "idle"
    /\ prefetched = <<>>
    /\ server_raw_results = <<>>
    /\ backlink_scores = <<>>
    /\ market_rankings = <<>>

InitScorer ==
    /\ InitScorerIdle
    /\ backlink_edges = {}

NoRequest == [query |-> <<>>, page |-> 1, limit |-> 1]
NoResponse == [status |-> 0, total_candidates |-> 0, results |-> <<>>]

InitRetriever ==
    /\ rpc = "idle"
    /\ request = NoRequest
    /\ candidates = <<>>
    /\ search_error = FALSE
    /\ http_response = NoResponse

NoCallResponse == [status |-> 0, detail |-> "none"]
NoListResponse == [status |-> 0, server |-> 0, tools |-> <<>>]
NoExtractionArgs == [skip_extracted |-> TRUE, skip_auth |-> FALSE, remote_only |-> FALSE,
                     max_servers |-> 0]

InitGateway ==
    /\ cpc = "idle"
    /\ call_request = 0
    /\ call_info = <<>>
    /\ transport_open = FALSE
    /\ session_open = FALSE
    /\ call_exc = [kind |-> "none", at |-> "none", message |-> "none"]
    /\ call_response = NoCallResponse
    /\ transport_args = <<>>
    /\ list_response = NoListResponse

\* No update logged
InitNoStatusLog == status_log = <<>>

InitNoEmbeddings ==
    /\ search_docs = {}
    /\ tool_embeddings = {}
    /\ committed_embeddings = {}
    /\ upc = "idle"
    /\ u_rows = <<>>
    /\ u_i = 0
    /\ u_batch_size = 0
    /\ u_encoded = {}
    /\ u_hist = <<>>

InitNoParse ==
    /\ p_url = <<>>
    /\ p_done = FALSE
    /\ p_result = <<>>

InitNoRequests ==
    /\ gpc = "idle"
    /\ g_request = <<>>
    /\ g_status = 0
    /\ g_served = 0
    /\ db_connections = 0
    /\ db_unreferenced = 0

InitNoPool ==
    /\ ppc = "idle"
    /\ pool_missing = <<>>
    /\ pool_state = <<>>
    /\ pool_fetches = <<>>
    /\ pool_writes = {}

InitNoCosts ==
    /\ c_secret_vars = <<>>
    /\ c_done = FALSE
    /\ c_row = <<>>

\* Nothing of the offline scripts
InitOffline ==
    /\ InitNoStatusLog
    /\ InitNoEmbeddings
    /\ InitNoParse
    /\ InitNoRequests
    /\ InitNoPool
    /\ InitNoCosts

InitExtractor ==
    /\ utcnow = 0
    /\ xpc = "idle"
    /\ x_servers = <<>>
    /\ x_idx = 0
    /\ x_args = NoExtractionArgs
    /\ x_error = <<>>

\* No connection rows, no tools, nothing extracted, an empty environment
InitNoConnections ==
    /\ server_remotes = <<>>
    /\ server_packages = <<>>
    /\ server_local_sources = <<>>
    /\ os_environ = <<>>
    /\ tools_table = <<>>
    /\ tool_extraction_status = <<>>
    /\ res_in = <<>>
    /\ res_out = <<>>
    /\ InitGateway
    /\ InitExtractor

InitNoGateway ==
    /\ InitNoConnections
    /\ InitOffline

\* No search index
InitNoIndex ==
    /\ s_scores = <<>>
    /\ k_raws = <<>>
    /\ InitRetriever

\* No scoring data: the store of the enrichment specifications
InitNoScores ==
    /\ InitNoIndex
    /\ config_references = [s \in ServerSet |-> <<>>]
    /\ dependency_signals = [s \in ServerSet |-> <<>>]
    /\ github_signals = <<>>
    /\ package_downloads = [s \in ServerSet |-> 0]
    /\ secret_env_vars = [s \in ServerSet |-> 0]
    /\ InitScorer

InitOf(W) ==
    /\ worker \in W
    /\ now = [day |-> Window(worker) + 1, tod |-> 1]
    /\ servers_table = [i \in 1..MaxServers |-> i]
    /\ \E f \in [1..MaxServers -> UNION {StoreProfiles(worker, s, now) : s \in 1..MaxServers}] :
         /\ \A s \in 1..MaxServers : f[s] \in StoreProfiles(worker, s, now)
         /\ data_rows = [s \in 1..MaxServers |-> f[s].data]
         /\ enrichment_status = [s \in 1..MaxServers |-> f[s].status]
    /\ committed = [enrichment_status |-> enrichment_status, data_rows |-> data_rows]
    /\ parsable \in (IF worker = "github"
                     THEN {1..MaxServers, 2..MaxServers}
                     ELSE {1..MaxServers})
    /\ token \in (IF worker = "config_refs" THEN BOOLEAN ELSE {TRUE})
    /\ InitRun
    /\ InitFetcher
    /\ InitNoScores
    /\ InitNoGateway

Init == InitOf(Workers \ {"config_refs"})

\* GitHub code search answers: found, rate limited without a reset header,
\* unprocessable
SearchOutcomes == {Resp(200), Resp(403), Resp(422)}
SearchAnswers == SearchRequestFrom(SearchOutcomes, {NoHeader}, MaxFaults)

\* The source answers the request in flight
SourceAnswers == FetchRequestFrom(SourceOutcomes)

Next ==
    \/ StartRun
    \/ SkipUnparsed
    \/ BeginItem
    \/ SourceAnswers
    \/ FetchSleep
    \/ HandleResult
    \/ PoliteSleep
    \/ FinishRun
    \/ Exit
    \/ Interrupt

Spec == Init /\ [][Next]_vars

(***************************************************************************)
(* SpecConfig: runs of enrich_config_refs                                  *)
(***************************************************************************)
InitConfig == InitOf({"config_refs"})

NextConfig ==
    \/ StartRun
    \/ BeginSearches
    \/ SearchAnswers
    \/ SearchSleep
    \/ SearchPoliteSleep
    \/ FinishRun
    \/ Exit
    \/ handle_interrupt

SpecConfig == InitConfig /\ [][NextConfig]_vars

(***************************************************************************)
(* SpecSearch: one run of enrich_config_refs over new servers, GitHub code *)
(* search rate limited with every kind of X-RateLimit-Reset header         *)
(***************************************************************************)
\* Seconds from now to the reset the header announces: past, near, far
ResetOffsets == {-10, 50, 500}
ResetHeaders(t) ==
    {NoHeader, [kind |-> "garbage", value |-> 0]}
        \cup {[kind |-> "int", value |-> Epoch(t) + d] : d \in ResetOffsets}

InitSearch ==
    /\ worker = "config_refs"
    /\ now = [day |-> Window(worker) + 1, tod |-> 1]
    /\ servers_table = [i \in 1..MaxServers |-> i]
    /\ data_rows = [s \in 1..MaxServers |-> NoConfigRows]
    /\ enrichment_status = [s \in 1..MaxServers |-> NoRow]
    /\ committed = [enrichment_status |-> enrichment_status, data_rows |-> data_rows]
    /\ parsable = 1..MaxServers
    /\ token = TRUE
    /\ InitRun
    /\ InitFetcher
    /\ InitNoScores
    /\ InitNoGateway

\* GitHub code search answers 200 or a rate-limit 403
ThrottledSearch == SearchRequestFrom({Resp(200), Resp(403)}, ResetHeaders(now), MaxSearchFaults)

NextSearch ==
    \/ StartRun
    \/ BeginSearches
    \/ ThrottledSearch
    \/ SearchSleep
    \/ SearchPoliteSleep
    \/ FinishRun
    \/ Exit
    \/ handle_interrupt

SpecSearch == InitSearch /\ [][NextSearch]_vars

(***************************************************************************)
(* SpecBatch: one worker over CommitEvery + 1 new servers, every request   *)
(* answered 200                                                            *)
(***************************************************************************)
BatchSize == CommitEvery + 1

InitBatch ==
    /\ worker \in Workers
    /\ now = [day |-> Window(worker) + 1, tod |-> 1]
    /\ servers_table = [i \in 1..BatchSize |-> i]
    /\ data_rows = [s \in 1..BatchSize |-> NoDataOf(worker)]
    /\ enrichment_status = [s \in 1..BatchSize |-> NoRow]
    /\ committed = [enrichment_status |-> enrichment_status, data_rows |-> data_rows]
    /\ parsable = 1..BatchSize
    /\ token = TRUE
    /\ InitRun
    /\ InitFetcher
    /\ InitNoScores
    /\ InitNoGateway

HealthyAnswers == FetchRequestFrom({Resp(200)})
HealthySearch == SearchRequestFrom({Resp(200)}, {NoHeader}, MaxFaults)

NextBatch ==
    \/ StartRun
    \/ BeginItem
    \/ HealthyAnswers
    \/ HandleResult
    \/ PoliteSleep
    \/ BeginSearches
    \/ HealthySearch
    \/ SearchPoliteSleep
    \/ FinishRun
    \/ Exit
    \/ Interrupt
    \/ handle_interrupt

SpecBatch == InitBatch /\ [][NextBatch]_vars

(***************************************************************************)
(* SpecFetch: exponential_backoff_request on its own                       *)
(***************************************************************************)
\* base_delay at the call sites (enrich.py:395, 548, 558, 1143)
BaseDelays == {2, 5, 30}

\* A caller invokes exponential_backoff_request(url, max_retries=m, base_delay=b)
FetchCall ==
    /\ fpc \in {"idle", "returned"}
    /\ \E m \in 0..MaxRetriesArg, b \in BaseDelays : CallFetcher(m, b)
    /\ UNCHANGED <<storeVars, runVars, obsVars>>

\* requests.get ends in any of the outcomes
FetchRequest == FetchRequestFrom(Outcomes)

InitFetch ==
    /\ worker = "github"
    /\ now = [day |-> 0, tod |-> 0]
    /\ servers_table = [i \in 1..MaxServers |-> i]
    /\ data_rows = [s \in 1..MaxServers |-> NoData]
    /\ enrichment_status = [s \in 1..MaxServers |-> NoRow]
    /\ committed = [enrichment_status |-> enrichment_status, data_rows |-> data_rows]
    /\ parsable = 1..MaxServers
    /\ token = TRUE
    /\ InitRun
    /\ InitFetcher
    /\ InitNoScores
    /\ InitNoGateway

NextFetch == FetchCall \/ FetchRequest \/ FetchSleep

SpecFetch == InitFetch /\ [][NextFetch]_vars

(***************************************************************************)
(* Real numbers: floats are fixed-point integers, three decimal places     *)
(***************************************************************************)
Fix(n) == n * 1000
One == Fix(1)
Mul(a, b) == (a * b) \div One
Div(a, b) == (a * One) \div b

\* math.log(x) for x >= 1: halve down to [1, 2), then the atanh series
RECURSIVE Ln(_)
Ln(x) ==
    IF x >= 2 * One
    THEN 693 + Ln(x \div 2)
    ELSE LET z  == Div(x - One, x + One)
             z2 == Mul(z, z)
             z3 == Mul(z2, z)
             z5 == Mul(z3, z2)
         IN  2 * (z + z3 \div 3 + z5 \div 5)

log1p(x) == Ln(One + x)
log10(x) == Div(Ln(x), 2303)

\* math.exp(y): the Taylor series, term by term
RECURSIVE ExpSum(_, _, _)
ExpSum(y, term, k) ==
    IF k > 10 \/ term = 0 THEN 0
    ELSE term + ExpSum(y, (term * y) \div (One * k), k + 1)
exp(y) == ExpSum(y, One, 1)

\* math.sqrt(x): the largest r with r * r <= x
RECURSIVE SqrtBetween(_, _, _)
SqrtBetween(n, lo, hi) ==
    IF lo >= hi THEN lo
    ELSE LET mid == (lo + hi + 1) \div 2
         IN  IF mid * mid <= n THEN SqrtBetween(n, mid, hi) ELSE SqrtBetween(n, lo, mid - 1)
sqrt(x) == SqrtBetween(x * One, 0, Max(x, One))

\* the smallest positive float the model has stands for 1e-6
Epsilon == 1

RECURSIVE SumSeq(_)
SumSeq(q) == IF q = <<>> THEN 0 ELSE Head(q) + SumSeq(Tail(q))

\* sorted(vals)
RECURSIVE Insert(_, _)
Insert(v, q) ==
    IF q = <<>> THEN <<v>>
    ELSE IF v <= Head(q) THEN <<v>> \o q ELSE <<Head(q)>> \o Insert(v, Tail(q))
RECURSIVE sorted(_)
sorted(q) == IF q = <<>> THEN <<>> ELSE Insert(Head(q), sorted(Tail(q)))

(***************************************************************************)
(* Backlink scoring: the tables                                            *)
(***************************************************************************)
Null == <<>>                 \* SQL NULL / Python None, of a column held as <<value>>
Some(v) == <<v>>

RepoOwnerX      == <<"o","w","n","e","r","/","x">>
RepoOwnerXUpper == <<"O","w","n","e","r","/","X">>
RepoOther       == <<"o","t","h","e","r","/","r","e","p","o">>
RepoToolJs      == <<"a","c","m","e","/","t","o","o","l",".","j","s">>

GitHubUrl(path) ==
    <<"h","t","t","p","s",":","/","/","g","i","t","h","u","b",".","c","o","m","/">> \o path

\* servers.repository_url
repository_url(s) ==
    CASE s = 1 -> GitHubUrl(RepoOwnerXUpper)
      [] s = 2 -> GitHubUrl(RepoToolJs)
      [] OTHER -> NoText

CacheServerName == <<"_","_","c","a","c","h","e","_","_">>

TIER_WEIGHTS(tier) ==
    CASE tier = "tier1_config"     -> 1000
      [] tier = "tier2_dependency" -> 800
      [] tier = "tier3_deployment" -> 600
      [] tier = "tier4_curated"    -> 300
      [] tier = "tier5_mention"    -> 100
      [] OTHER                     -> 500     \* TIER_WEIGHTS.get(tier, 0.5)

\* CONFIG_TYPE_TO_TIER.get(config_type, "tier1_config")
CONFIG_TYPE_TO_TIER(config_type) == "tier1_config"

\* datetime.fromisoformat(pushed_at.replace('Z', '+00:00'))
IsIsoText(text) == Len(text) = 3 /\ text[2] = "T"
ParseIso(text) == [day |-> text[1], tod |-> text[3]]
GarbageText == <<"x">>

\* (now - pushed_date).days
DaysSince(t, pushed_date) == (Epoch(t) - Epoch(pushed_date)) \div 86400

\* math.exp(-0.5 * years_ago) with years_ago = days / 365.0
Decay(days) == exp((0 - days * One) \div 730)

compute_recency_factor(pushed_at, t) ==
    IF pushed_at = Null THEN 500
    ELSE IF ~IsIsoText(pushed_at) THEN 500
    ELSE Decay(DaysSince(t, ParseIso(pushed_at)))

compute_quality_factor(is_archived, is_fork) ==
    LET f1 == IF is_archived THEN Mul(One, 200) ELSE One
    IN  IF is_fork THEN Mul(f1, 500) ELSE f1

compute_edge_score(tier_weight, stars, pushed_at, is_archived, is_fork, t) ==
    Mul(Mul(Mul(tier_weight, One + log1p(Fix(stars))),
            compute_recency_factor(pushed_at, t)),
        compute_quality_factor(is_archived, is_fork))

\* fetch_repo_metadata: None, or what a 200 carries
NoMeta == [ok |-> FALSE]
Meta(stars, pushed_at, is_archived, is_fork) ==
    [ok |-> TRUE, stars |-> stars, pushed_at |-> pushed_at,
     is_archived |-> is_archived, is_fork |-> is_fork]
MetaOutcomes(t) ==
    {NoMeta,
     Meta(1, IsoText(t), FALSE, FALSE),
     Meta(100, IsoText(DaysAgo(t, 730)), TRUE, TRUE)}

\* first index >= i of s that holds a character of stops; Len(s) + 1 if none
RECURSIVE RunEnd(_, _, _)
RunEnd(s, i, stops) ==
    IF i > Len(s) \/ s[i] \in stops THEN i ELSE RunEnd(s, i + 1, stops)

\* repo_fullname.split('/') has exactly two parts
TwoParts(r) == Cardinality({i \in 1..Len(r) : r[i] = "/"}) = 1

PatGitHubCom == <<"g","i","t","h","u","b",".","c","o","m">>

\* group 1 of r'github\.com[/:]([^/]+/[^/\.]+)' matched at position i, NoText if no match there
OwnRepoMatchAt(url, i) ==
    LET n  == Len(PatGitHubCom)
        o  == i + n + 1
        oe == RunEnd(url, o, {"/"})
        ne == RunEnd(url, oe + 1, {"/", "."})
    IN  IF /\ i + n <= Len(url)
           /\ SubSeq(url, i, i + n - 1) = PatGitHubCom
           /\ url[i + n] \in {"/", ":"}
           /\ oe > o
           /\ oe <= Len(url)
           /\ ne > oe + 1
        THEN SubSeq(url, o, ne - 1)
        ELSE NoText

\* own_repo of the scoring loop (None is NoText)
own_repo(url) ==
    IF url = NoText \/ ~Contains(PatGitHubCom, url) THEN NoText
    ELSE LET hits == {i \in 1..Len(url) : OwnRepoMatchAt(url, i) # NoText}
         IN  IF hits = {} THEN NoText
             ELSE Lower(OwnRepoMatchAt(url, CHOOSE i \in hits : \A j \in hits : i <= j))

\* a backlink_edges row
Edge(server_name, repo, tier, tier_weight, stars, pushed_at, is_archived, is_fork, edge_score) ==
    [server_name |-> server_name, referencer_repo |-> repo, tier |-> tier,
     tier_weight |-> tier_weight, repo_stars |-> stars, repo_pushed_at |-> pushed_at,
     is_archived |-> is_archived, is_fork |-> is_fork, edge_score |-> edge_score]

SameKey(e, f) ==
    /\ e.server_name = f.server_name
    /\ e.referencer_repo = f.referencer_repo
    /\ e.tier = f.tier

\* INSERT OR IGNORE: a row that violates NOT NULL (tier_weight) or UNIQUE is skipped
InsertOrIgnore(table, row) ==
    IF row.tier_weight = Null \/ (\E e \in table : SameKey(e, row))
    THEN table
    ELSE table \cup {row}

\* INSERT OR REPLACE
InsertOrReplace(table, row) == {e \in table : ~SameKey(e, row)} \cup {row}

\* The synthetic row of stage 1: the statement names no tier_weight, and the
\* column has no default
CacheRow(repo, meta) ==
    Edge(CacheServerName, repo, "metadata_cache", Null,
         Some(meta.stars), meta.pushed_at, meta.is_archived, meta.is_fork, Null)

\* UPDATE backlink_edges SET ... WHERE referencer_repo = ? AND repo_stars IS NULL
UpdateMissingMetadata(table, repo, meta) ==
    {IF e.referencer_repo = repo /\ e.repo_stars = Null
     THEN [e EXCEPT !.repo_stars = Some(meta.stars), !.repo_pushed_at = meta.pushed_at,
                    !.is_archived = meta.is_archived, !.is_fork = meta.is_fork]
     ELSE e : e \in table}

\* The loop over as_completed(future_to_repo)
RECURSIVE StoreMetadata(_, _, _)
StoreMetadata(table, metas, todo) ==
    IF todo = {} THEN table
    ELSE LET r == CHOOSE x \in todo : TRUE
             t == IF metas[r].ok
                  THEN UpdateMissingMetadata(InsertOrIgnore(table, CacheRow(r, metas[r])),
                                             r, metas[r])
                  ELSE table
         IN  StoreMetadata(t, metas, todo \ {r})

(***************************************************************************)
(* compute_backlink_scores                                                 *)
(***************************************************************************)
\* all_sample_repos of stage 1
AllSampleRepos ==
    UNION {Range(row.sample_repos) :
               row \in UNION {Range(config_references[s]) : s \in DOMAIN config_references}}

\* referencer_repo of the rows WHERE repo_stars IS NOT NULL
CachedRepos == {e.referencer_repo : e \in {f \in backlink_edges : f.repo_stars # Null}}

MissingRepos == AllSampleRepos \ CachedRepos

\* The --query argument of a scorer run
ScoreQueries == {NoText, <<"b">>}

\* Stage 1: metadata of the missing repos is fetched and written
PrefetchMetadata ==
    /\ spc = "idle"
    /\ runs < MaxRuns
    /\ \E q \in ScoreQueries : query' = q
    /\ \E metas \in [MissingRepos -> MetaOutcomes(now)] :
         /\ \A r \in MissingRepos : ~TwoParts(r) => metas[r] = NoMeta
         /\ backlink_edges' = StoreMetadata(backlink_edges, metas, MissingRepos)
         /\ prefetched' = metas
    /\ spc' = "stage2"
    /\ runs' = runs + 1
    /\ UNCHANGED <<config_references, dependency_signals, github_signals, package_downloads,
                   secret_env_vars, backlink_scores, market_rankings, server_raw_results>>
    /\ UNCHANGED <<workerVars, retrVars, gateVars, fetchVars, obsVars>>
    /\ UNCHANGED <<worker, pc, skip_failures, limit, token, now, permanent_failures,
                   servers, idx, phase, processed, conn_open, exit_kind, parsable, month_resp,
                   searchVars>>

\* fetchone() of the UNION ... LIMIT 1: sqlite sorts a UNION, NULL first
FirstOfUnion(cols) ==
    IF \E c \in cols : c.repo_stars = Null
    THEN CHOOSE c \in cols : c.repo_stars = Null
    ELSE CHOOSE c \in cols : \A d \in cols : c.repo_stars[1] <= d.repo_stars[1]

\* stars, pushed_at, is_archived, is_fork the scoring loop uses for a repo
Metadata(repo) ==
    LET cols == {[repo_stars |-> e.repo_stars, repo_pushed_at |-> e.repo_pushed_at,
                  is_archived |-> e.is_archived, is_fork |-> e.is_fork] :
                     e \in {f \in backlink_edges : f.referencer_repo = repo}}
    IN  IF cols # {} /\ FirstOfUnion(cols).repo_stars # Null
        THEN [stars |-> FirstOfUnion(cols).repo_stars[1],
              pushed_at |-> FirstOfUnion(cols).repo_pushed_at,
              is_archived |-> FirstOfUnion(cols).is_archived,
              is_fork |-> FirstOfUnion(cols).is_fork]
        ELSE [stars |-> 0, pushed_at |-> Null, is_archived |-> FALSE, is_fork |-> FALSE]

\* The (config_type, repo_fullname) pairs the two nested loops visit, in order
RECURSIVE SampleRefs(_)
SampleRefs(rows) ==
    IF rows = <<>> THEN <<>>
    ELSE [j \in 1..Len(Head(rows).sample_repos) |->
             [config_type |-> Head(rows).config_type, repo |-> Head(rows).sample_repos[j]]]
         \o SampleRefs(Tail(rows))

\* The body of `for repo_fullname in sample_repos`, over all pairs
RECURSIVE ScanRefs(_, _, _, _, _)
ScanRefs(refs, s, t, unique_repos, edges) ==
    IF refs = <<>> THEN [unique_repos |-> unique_repos, edges_to_store |-> edges]
    ELSE LET repo == Head(refs).repo
             tier == CONFIG_TYPE_TO_TIER(Head(refs).config_type)
             own  == own_repo(repository_url(s))
             key  == <<Lower(repo), tier>>
             m    == Metadata(repo)
             tw   == TIER_WEIGHTS(tier)
             edge_score == compute_edge_score(tw, m.stars, m.pushed_at, m.is_archived, m.is_fork, t)
         IN  IF \/ repo = NoText
                \/ (own # NoText /\ Lower(repo) = own)
                \/ key \in unique_repos
             THEN ScanRefs(Tail(refs), s, t, unique_repos, edges)
             ELSE ScanRefs(Tail(refs), s, t, unique_repos \cup {key},
                           Append(edges, Edge(Name(s), repo, tier, Some(tw), Some(m.stars),
                                              m.pushed_at, m.is_archived, m.is_fork,
                                              Some(edge_score))))

\* dep_score of one dependency_signals row
dep_score(dep) ==
    Mul(Mul(TIER_WEIGHTS("tier2_dependency"), log1p(Fix(dep.dependents_count))),
        sqrt(One + Fix(dep.dependent_repos_count) \div 100))

\* r.split('/')[0] + '/' + r.split('/')[1] if '/' in r else r
OwnerSlashName(r) ==
    IF \A i \in 1..Len(r) : r[i] # "/" THEN r
    ELSE SubSeq(r, 1, RunEnd(r, RunEnd(r, 1, {"/"}) + 1, {"/"}) - 1)

\* server_raw_results[server_name]
RawResult(s, t) ==
    LET scan  == ScanRefs(SampleRefs(config_references[s]), s, t, {}, <<>>)
        tier1 == SumSeq([i \in 1..Len(scan.edges_to_store) |-> scan.edges_to_store[i].edge_score[1]])
        tier2 == SumSeq([i \in 1..Len(dependency_signals[s]) |-> dep_score(dependency_signals[s][i])])
    IN  [raw_score |-> tier1 + tier2,
         tier1 |-> tier1,
         tier2 |-> tier2,
         edges_to_store |-> scan.edges_to_store,
         unique_repos_count |-> Cardinality({OwnerSlashName(k[1]) : k \in scan.unique_repos})]

\* `if query: servers = [s for s in servers if q in s['name'].lower()]`
ScoredServers(q) ==
    {s \in ServerSet : q # NoText => Contains(Lower(q), Lower(Name(s)))}

\* Stage 2: the scoring loop
ScoringLoop ==
    /\ spc = "stage2"
    /\ server_raw_results' = [s \in ScoredServers(query) |-> RawResult(s, now)]
    /\ spc' = "stage3"
    /\ UNCHANGED <<config_references, dependency_signals, github_signals, package_downloads,
                   secret_env_vars, backlink_edges, backlink_scores, market_rankings, prefetched>>
    /\ UNCHANGED <<workerVars, retrVars, gateVars, runVars, fetchVars, obsVars>>

\* sorted_log_raws[int(len(sorted_log_raws) * 0.99)], floored at 1e-6; 1.0 for no values
Percentile99(vals) ==
    IF vals = <<>> THEN One
    ELSE Max(sorted(vals)[(Len(vals) * 99) \div 100 + 1], Epsilon)

\* q99_log_raw of stage 3
q99_log_raw(results) ==
    LET positive == SelectSeq(servers_table,
                              LAMBDA s : s \in DOMAIN results /\ results[s].raw_score > 0)
    IN  Percentile99([i \in 1..Len(positive) |-> log1p(results[positive[i]].raw_score)])

\* normalized = min(1.0, log_raw / q99_log_raw) if raw_score > 0 else 0.0
Normalized_Reversed(raw_score, q99) ==
    IF raw_score > 0 THEN One - Min(One, Div(log1p(raw_score), q99)) ELSE 0
normalized(raw_score, q99) ==
    IF raw_score > 0 THEN Min(One, Div(log1p(raw_score), q99)) ELSE 0

\* The INSERT OR REPLACE of every edge of every scored server
RECURSIVE StoreEdges(_, _)
StoreEdges(table, edges) ==
    IF edges = <<>> THEN table
    ELSE StoreEdges(InsertOrReplace(table, Head(edges)), Tail(edges))

RECURSIVE AllEdges(_, _)
AllEdges(results, order) ==
    IF order = <<>> THEN <<>>
    ELSE (IF Head(order) \in DOMAIN results THEN results[Head(order)].edges_to_store ELSE <<>>)
         \o AllEdges(results, Tail(order))

\* a backlink_scores row
ScoreRow(res, q99) ==
    [raw_score |-> res.raw_score,
     normalized_score |-> normalized(res.raw_score, q99),
     tier1_contribution |-> res.tier1,
     tier2_contribution |-> res.tier2,
     unique_repos |-> res.unique_repos_count]

\* Stage 3: normalisation, the edges and the scores are stored, commit
NormalizeAndStore ==
    /\ spc = "stage3"
    /\ backlink_edges' = StoreEdges(backlink_edges, AllEdges(server_raw_results, servers_table))
    /\ backlink_scores' =
          [s \in DOMAIN backlink_scores \cup DOMAIN server_raw_results |->
              IF s \in DOMAIN server_raw_results
              THEN ScoreRow(server_raw_results[s], q99_log_raw(server_raw_results))
              ELSE backlink_scores[s]]
    /\ spc' = "idle"
    /\ prefetched' = <<>>
    /\ server_raw_results' = <<>>
    /\ UNCHANGED <<config_references, dependency_signals, github_signals, package_downloads,
                   secret_env_vars, market_rankings>>
    /\ UNCHANGED <<workerVars, retrVars, gateVars, runVars, fetchVars, obsVars>>

(***************************************************************************)
(* compute_market_rankings                                                 *)
(***************************************************************************)
TRUSTED_ORGS ==
    {<<"m","o","d","e","l","c","o","n","t","e","x","t","p","r","o","t","o","c","o","l">>,
     <<"a","n","t","h","r","o","p","i","c">>,
     <<"g","o","o","g","l","e">>,
     <<"o","p","e","n","a","i">>,
     <<"m","e","t","a","-","l","l","a","m","a">>,
     <<"m","i","c","r","o","s","o","f","t">>,
     <<"f","a","c","e","b","o","o","k">>,
     <<"d","o","c","k","e","r">>,
     <<"h","a","s","h","i","c","o","r","p">>,
     <<"a","w","s">>,
     <<"c","l","o","u","d","f","l","a","r","e">>,
     <<"v","e","r","c","e","l">>,
     <<"s","u","p","a","b","a","s","e">>,
     <<"m","o","n","g","o","d","b">>,
     <<"p","i","n","e","c","o","n","e">>,
     <<"e","l","a","s","t","i","c">>}

\* One row of the SELECT: the server LEFT JOINed with its signals
Signals(s) ==
    [name       |-> s,
     usage_raw  |-> IF s \in DOMAIN backlink_scores THEN backlink_scores[s].raw_score ELSE 0,
     stars      |-> IF s \in DOMAIN github_signals THEN github_signals[s].stars ELSE 0,
     forks      |-> IF s \in DOMAIN github_signals THEN github_signals[s].forks ELSE 0,
     last_push  |-> IF s \in DOMAIN github_signals THEN github_signals[s].last_push ELSE Null,
     downloads  |-> package_downloads[s],
     auth_count |-> secret_env_vars[s],
     repo_owner |-> IF s \in DOMAIN github_signals THEN github_signals[s].repo_owner ELSE Null]

\* Pillar 3 of one row
Activity(pushed_at, t) ==
    IF pushed_at = Null THEN 500
    ELSE IF ~IsIsoText(pushed_at) THEN 500
    ELSE Decay(DaysSince(t, ParseIso(pushed_at)))

\* raw_data of one row
RawPillars(r, t) ==
    [name         |-> r.name,
     u_raw        |-> log1p(r.usage_raw),
     r_raw        |-> log10(Fix(1 + r.stars)) + log10(Fix(1 + r.forks)),
     activity     |-> Activity(r.last_push, t),
     c_raw        |-> log10(Fix(1 + r.downloads)),
     is_zero_auth |-> r.auth_count = 0,
     is_verified  |-> Lower(r.repo_owner) \in TRUSTED_ORGS]

get_q99(vals) == Percentile99(vals)

\* final_score = max(0.0, min(1.0, composite))
FinalScore_Unclamped(composite) == composite
final_score(composite) == Max(0, Min(One, composite))

\* Additive bonuses: +0.05 zero-auth, +0.10 verified
Bonuses_VerifiedOnly(d) == IF d.is_verified THEN 100 ELSE 0
bonuses(d) == (IF d.is_zero_auth THEN 50 ELSE 0) + (IF d.is_verified THEN 100 ELSE 0)

\* The market_rankings row of one server
Ranking(d, q99_u, q99_r, q99_c) ==
    LET u_norm == Min(One, Div(d.u_raw, q99_u))
        r_norm == Min(One, Div(d.r_raw, q99_r))
        a_norm == d.activity
        c_norm == Min(One, Div(d.c_raw, q99_c))
        composite == Mul(450, u_norm) + Mul(300, r_norm) + Mul(150, a_norm) + Mul(100, c_norm)
                     + bonuses(d)
    IN  [total_score      |-> final_score(composite),
         usage_score      |-> u_norm,
         reputation_score |-> r_norm,
         activity_score   |-> a_norm,
         reach_score      |-> c_norm,
         is_zero_auth     |-> d.is_zero_auth,
         is_verified      |-> d.is_verified]

compute_market_rankings ==
    /\ spc = "idle"
    /\ LET raw_data == [i \in 1..Len(servers_table) |-> RawPillars(Signals(servers_table[i]), now)]
           q99_u == get_q99([i \in 1..Len(raw_data) |-> raw_data[i].u_raw])
           q99_r == get_q99([i \in 1..Len(raw_data) |-> raw_data[i].r_raw])
           q99_c == get_q99([i \in 1..Len(raw_data) |-> raw_data[i].c_raw])
       IN  market_rankings' =
              [s \in DOMAIN market_rankings \cup ServerSet |->
                  IF s \in ServerSet
                  THEN Ranking(raw_data[CHOOSE i \in 1..Len(raw_data) : raw_data[i].name = s],
                               q99_u, q99_r, q99_c)
                  ELSE market_rankings[s]]
    /\ UNCHANGED <<config_references, dependency_signals, github_signals, package_downloads,
                   secret_env_vars, backlink_edges, backlink_scores, spc, prefetched,
                   server_raw_results>>
    /\ UNCHANGED <<workerVars, retrVars, gateVars, runVars, fetchVars, obsVars>>

(***************************************************************************)
(* SpecScores: runs of compute_backlink_scores and compute_market_rankings *)
(* over every small set of config references; SpecRank: the same over      *)
(* every small set of GitHub, download and secret signals                  *)
(***************************************************************************)
ConfigRow(config_type, sample_repos) ==
    [config_type |-> config_type, sample_repos |-> sample_repos]

\* config_references rows of one server: none; its own repo and another; one
\* repo under two config types and a differently cased one; a dotted name
\* and a row without samples
ConfigProfiles ==
    {<<>>,
     <<ConfigRow("claude_desktop", <<RepoOwnerX, RepoOther>>)>>,
     <<ConfigRow("claude_desktop", <<RepoOther>>),
       ConfigRow("cursor", <<RepoOther, RepoOwnerXUpper>>)>>,
     <<ConfigRow("claude_desktop", <<RepoToolJs>>), ConfigRow("cursor", Null)>>}

DependencyProfiles ==
    {<<>>, <<[dependents_count |-> 10, dependent_repos_count |-> 300]>>}

OwnerAws  == <<"A","W","S">>
OwnerAcme == <<"a","c","m","e">>

\* github_signals.last_push values: NULL, later today, today, two years ago, unparsable
LastPushes(t) ==
    {Null, IsoText([t EXCEPT !.tod = @ + 1]), IsoText(t), IsoText(DaysAgo(t, 730)), GarbageText}

SignalRow(stars, forks, last_push, repo_owner) ==
    [stars |-> stars, forks |-> forks, last_push |-> last_push, repo_owner |-> repo_owner]

NoSignals == [stars |-> -1]

AllSignals(t) ==
    {NoSignals} \cup
    {SignalRow(p[1], p[2], lp, o) :
        p \in {<<0, 0>>, <<100, 10>>}, lp \in LastPushes(t), o \in {Null, OwnerAws, OwnerAcme}}

FewSignals(t) == {NoSignals, SignalRow(100, 10, IsoText(t), OwnerAcme)}

ScoreClock == [day |-> 800, tod |-> 0]

InitScoreData(configs, deps, signals, downloads, secrets) ==
    /\ worker = "github"
    /\ now = ScoreClock
    /\ servers_table = [i \in 1..MaxServers |-> i]
    /\ data_rows = [s \in 1..MaxServers |-> NoData]
    /\ enrichment_status = [s \in 1..MaxServers |-> NoRow]
    /\ committed = [enrichment_status |-> enrichment_status, data_rows |-> data_rows]
    /\ parsable = 1..MaxServers
    /\ token = TRUE
    /\ InitRun
    /\ InitFetcher
    /\ \E c \in [1..MaxServers -> UNION Range(configs)] :
         /\ \A s \in 1..MaxServers : c[s] \in configs[IF s = 1 THEN 1 ELSE 2]
         /\ config_references = c
    /\ dependency_signals \in [1..MaxServers -> deps]
    /\ \E g \in [1..MaxServers -> AllSignals(now)] :
         /\ \A s \in 1..MaxServers : g[s] \in signals[IF s = 1 THEN 1 ELSE 2]
         /\ github_signals = [s \in {x \in 1..MaxServers : g[x] # NoSignals} |-> g[s]]
    /\ \E d \in [1..MaxServers -> UNION Range(downloads)] :
         /\ \A s \in 1..MaxServers : d[s] \in downloads[IF s = 1 THEN 1 ELSE 2]
         /\ package_downloads = d
    /\ \E e \in [1..MaxServers -> UNION Range(secrets)] :
         /\ \A s \in 1..MaxServers : e[s] \in secrets[IF s = 1 THEN 1 ELSE 2]
         /\ secret_env_vars = e
    /\ InitNoIndex

InitScoreTables(configs, deps, signals, downloads, secrets) ==
    /\ InitScoreData(configs, deps, signals, downloads, secrets)
    /\ InitNoGateway

InitScoreStore(configs, deps, signals, downloads, secrets) ==
    /\ InitScoreTables(configs, deps, signals, downloads, secrets)
    /\ InitScorer

InitScores ==
    InitScoreStore(<<ConfigProfiles, ConfigProfiles>>, DependencyProfiles,
                   <<FewSignals(ScoreClock), {NoSignals}>>, <<{0}, {0}>>, <<{0}, {1}>>)

NextScores ==
    \/ PrefetchMetadata
    \/ ScoringLoop
    \/ NormalizeAndStore
    \/ compute_market_rankings

SpecScores == InitScores /\ [][NextScores]_vars

InitRank ==
    InitScoreStore(<<{<<>>, <<ConfigRow("claude_desktop", <<RepoOwnerX, RepoOther>>)>>}, {<<>>}>>,
                   {<<>>},
                   <<AllSignals(ScoreClock), FewSignals(ScoreClock)>>,
                   <<{0, 1000}, {0, 10}>>, <<{0, 1}, {1}>>)

SpecRank == InitRank /\ [][NextScores]_vars

(***************************************************************************)
(* SpecBacklinks: runs of compute_backlink_scores with runs of             *)
(* enrich_config_refs between them, from an empty backlink_edges table     *)
(***************************************************************************)
\* enrich_config_refs has stored a server's config_references rows anew
\* (INSERT OR REPLACE per config type, the sample repos of the latest search)
StoreConfigReferences ==
    /\ spc = "idle"
    /\ \E s \in ServerSet, rows \in ConfigProfiles :
          /\ rows # config_references[s]
          /\ config_references' = [config_references EXCEPT ![s] = rows]
    /\ UNCHANGED <<dependency_signals, github_signals, package_downloads, secret_env_vars,
                   backlink_edges, backlink_scores, market_rankings, spc, prefetched,
                   server_raw_results>>
    /\ UNCHANGED <<workerVars, retrVars, gateVars, runVars, fetchVars, obsVars>>

InitBacklinks ==
    InitScoreStore(<<ConfigProfiles, {<<>>}>>, {<<>>},
                   <<{NoSignals}, {NoSignals}>>, <<{0}, {0}>>, <<{0}, {0}>>)

NextBacklinks ==
    \/ PrefetchMetadata
    \/ ScoringLoop
    \/ NormalizeAndStore
    \/ StoreConfigReferences

SpecBacklinks == InitBacklinks /\ [][NextBacklinks]_vars
(***************************************************************************)
(* SpecEdges: runs of compute_backlink_scores over a store whose           *)
(* backlink_edges table already holds rows: repo_stars is a nullable       *)
(* column, stage 1 selects and updates the rows WHERE repo_stars IS NULL,  *)
(* and a row stays for as long as its (server, repo, tier) is not written  *)
(* again                                                                   *)
(***************************************************************************)
\* a row whose metadata columns were never filled in
EdgeWithoutMetadata(s, repo) ==
    Edge(Name(s), repo, "tier1_config", Some(TIER_WEIGHTS("tier1_config")),
         Null, Null, FALSE, FALSE, Null)

\* a row of an earlier scorer run that knew the repo's metadata
EdgeWithMetadata(s, repo, meta, t) ==
    Edge(Name(s), repo, "tier1_config", Some(TIER_WEIGHTS("tier1_config")),
         Some(meta.stars), meta.pushed_at, meta.is_archived, meta.is_fork,
         Some(compute_edge_score(TIER_WEIGHTS("tier1_config"), meta.stars, meta.pushed_at,
                                 meta.is_archived, meta.is_fork, t)))

\* the repos an earlier run may have stored edges for
StoredRepos == {RepoOther, RepoToolJs}

\* UNIQUE(server_name, referencer_repo, tier)
UniqueKeys(table) == \A e \in table : \A f \in table : SameKey(e, f) => e = f

StoredEdges ==
    {EdgeWithoutMetadata(s, r) : s \in 1..MaxServers, r \in StoredRepos}
    \cup {EdgeWithMetadata(s, r, m, ScoreClock) :
             s \in 1..MaxServers, r \in StoredRepos, m \in MetaOutcomes(ScoreClock) \ {NoMeta}}

\* backlink_edges at the start: at most two rows, with or without metadata
StoredEdgeTables ==
    {t \in {{e, f} : e \in StoredEdges, f \in StoredEdges} \cup {{}} : UniqueKeys(t)}

InitEdges ==
    /\ InitScoreTables(<<ConfigProfiles, {<<>>, <<ConfigRow("cursor", <<RepoOther>>)>>}>>, {<<>>},
                       <<{NoSignals}, {NoSignals}>>, <<{0}, {0}>>, <<{0}, {0}>>)
    /\ InitScorerIdle
    /\ backlink_edges \in StoredEdgeTables

SpecEdges == InitEdges /\ [][NextScores]_vars

(***************************************************************************)
(* Search: RelevanceEngine.hybrid_search (relevance.py), Retriever.retrieve *)
(* (retriever.py) and the gateway's GET /search (server.py)                *)
(***************************************************************************)
\* candidate_limit of Retriever.retrieve
candidate_limit == 100

Tools == 1..MaxTools

\* tools_search.server_name of a tool
ToolServer(t) == ((t - 1) % MaxServers) + 1

\* Characters [a-zA-Z0-9] of the model's alphabet, and \s
WordChars == {"a", "b", "A", "B", "0", "1"}
Whitespace == {" "}

\* re.sub(r'[^a-zA-Z0-9\s]', ' ', query)
re_sub(q) == [i \in 1..Len(q) |-> IF q[i] \in WordChars \cup Whitespace THEN q[i] ELSE " "]

\* str.strip()
RECURSIVE strip(_)
strip(q) ==
    IF q = <<>> THEN q
    ELSE IF Head(q) \in Whitespace THEN strip(Tail(q))
    ELSE IF q[Len(q)] \in Whitespace THEN strip(SubSeq(q, 1, Len(q) - 1))
    ELSE q

fts_query(q) == strip(re_sub(q))

\* `tools_fts MATCH ?` with an empty string: fts5 raises a syntax error
MatchRaises(q) == fts_query(q) = <<>>

\* The CTEs: tools with an embedding; tools the keyword query matches
vector_hits == {t \in DOMAIN s_scores : s_scores[t] # Null}
fts_hits == {t \in DOMAIN k_raws : k_raws[t] # Null}

\* SELECT MAX(k_raw) FROM fts_hits (NULL over no rows)
k_max ==
    IF fts_hits = {} THEN Null
    ELSE Some(CHOOSE m \in {k_raws[t][1] : t \in fts_hits} :
                  \A t \in fts_hits : k_raws[t][1] <= m)

\* The SQL function log1p that get_connection registers (db.py)
safe_log1p(x) == IF x = Null THEN 0 ELSE log1p(Max(0, x[1]))

\* NULLIF(k_max, 0)
NullIfZero(x) == IF x # Null /\ x[1] = 0 THEN Null ELSE x

\* COALESCE(log1p(k.k_raw) / log1p(NULLIF(ks.k_max, 0)), 0.0): a division by
\* zero is NULL
KeywordScore(t) ==
    LET den == safe_log1p(NullIfZero(k_max))
    IN  IF den = 0 THEN 0
        ELSE Div(safe_log1p(IF t \in fts_hits THEN k_raws[t] ELSE Null), den)

\* (0.7 * COALESCE(v.s_score, 0.0)) + (0.3 * normalised keyword score)
Relevance_KeywordHeavy(t) ==
    Mul(300, IF t \in vector_hits THEN s_scores[t][1] ELSE 0) + Mul(700, KeywordScore(t))
Relevance(t) ==
    Mul(700, IF t \in vector_hits THEN s_scores[t][1] ELSE 0) + Mul(300, KeywordScore(t))

\* COALESCE(mr.total_score, 0)
Quality(t) ==
    IF ToolServer(t) \in DOMAIN market_rankings
    THEN market_rankings[ToolServer(t)].total_score
    ELSE 0

\* (0.8 * relevance) + (0.2 * quality)
FinalScore(t) == Mul(800, Relevance(t)) + Mul(200, Quality(t))

\* The rows of the SELECT: hit by either search, above the relevance bar
SelectedTools == {t \in vector_hits \cup fts_hits : Relevance(t) > 300}

Candidate(t) ==
    [tool_id |-> t, relevance |-> Relevance(t), quality |-> Quality(t),
     final_score |-> FinalScore(t)]

\* ORDER BY score DESC: any order of the rows in which the score never rises.
\* Rows of pairwise different scores have one such order, row r standing
\* behind the rows that score higher.
RECURSIVE TiedOrders(_)
TiedOrders(rows) ==
    IF rows = {} THEN {<<>>}
    ELSE LET top == {r \in rows : \A q \in rows : q.final_score <= r.final_score}
         IN  UNION {{<<r>> \o o : o \in TiedOrders(rows \ {r})} : r \in top}

ScoreOrders(rows) ==
    IF \A r, q \in rows : r.final_score = q.final_score => r = q
    THEN LET above == [r \in rows |->
                          Cardinality({q \in rows : q.final_score > r.final_score})]
         IN  {[i \in 1..Cardinality(rows) |-> CHOOSE r \in rows : above[r] = i - 1]}
    ELSE TiedOrders(rows)

\* The rows of the SELECT before ORDER BY and LIMIT
SelectedRows == {Candidate(t) : t \in SelectedTools}

\* seq[:n]
Take(q, n) == SubSeq(q, 1, Min(n, Len(q)))

\* GET /search?query=..&page=..&limit=..: FastAPI has validated page >= 1 and
\* 1 <= limit <= 100
SearchQueries == {<<"a">>, <<"!">>, <<" ", "!">>, <<"a", "!", " ">>}
Pages == {1, 2}
PageLimits == {1, 10, 100}

search_tools ==
    /\ rpc \in {"idle", "responded"}
    /\ \E q \in SearchQueries, p \in Pages, l \in PageLimits :
          request' = [query |-> q, page |-> p, limit |-> l]
    /\ rpc' = "searching"
    /\ candidates' = <<>>
    /\ search_error' = FALSE
    /\ http_response' = NoResponse
    /\ UNCHANGED <<s_scores, k_raws>>
    /\ UNCHANGED <<workerVars, scoreVars, gateVars, runVars, fetchVars, obsVars>>

\* relevance_engine.hybrid_search(query, limit=candidate_limit)
hybrid_search ==
    /\ rpc = "searching"
    /\ IF MatchRaises(request.query)
       THEN /\ search_error' = TRUE
            /\ candidates' = <<>>
       ELSE /\ search_error' = FALSE
            /\ \E o \in ScoreOrders(SelectedRows) :
                  candidates' = Take(o, candidate_limit)
    /\ rpc' = "searched"
    /\ UNCHANGED <<s_scores, k_raws, request, http_response>>
    /\ UNCHANGED <<workerVars, scoreVars, gateVars, runVars, fetchVars, obsVars>>

\* candidates[start_idx:end_idx]
Paged_FromEndIdx(c, page, lim) ==
    IF page * lim >= Len(c) THEN <<>>
    ELSE SubSeq(c, page * lim + 1, Min((page + 1) * lim, Len(c)))
Paged(c, page, lim) ==
    IF (page - 1) * lim >= Len(c) THEN <<>>
    ELSE SubSeq(c, (page - 1) * lim + 1, Min(page * lim, Len(c)))

\* final_results.sort(key=score, reverse=True) over the rows in tools.id
\* order: the sort is stable, so a row stands behind the rows that score
\* higher and behind the rows of its own score and a lower id
Hydrate(paged, ids) ==
    LET c == [t \in ids |-> paged[CHOOSE i \in DOMAIN paged : paged[i].tool_id = t]]
        before == [t \in ids |->
                      Cardinality({u \in ids :
                          \/ c[u].final_score > c[t].final_score
                          \/ c[u].final_score = c[t].final_score /\ u < t})]
    IN  [i \in 1..Cardinality(ids) |->
            LET tid == CHOOSE t \in ids : before[t] = i - 1
            IN  [tool_id |-> tid, relevance |-> c[tid].relevance,
                 quality |-> c[tid].quality, score |-> c[tid].final_score]]

\* The rest of Retriever.retrieve, and what search_tools answers: the result,
\* or a 500 for any exception
Respond ==
    /\ rpc = "searched"
    /\ http_response' =
          IF search_error
          THEN [status |-> 500, total_candidates |-> 0, results |-> <<>>]
          ELSE LET paged == Paged(candidates, request.page, request.limit)
               IN  [status |-> 200,
                    total_candidates |-> Len(candidates),
                    results |-> Hydrate(paged, {paged[i].tool_id : i \in DOMAIN paged})]
    /\ rpc' = "responded"
    /\ UNCHANGED <<s_scores, k_raws, request, candidates, search_error>>
    /\ UNCHANGED <<workerVars, scoreVars, gateVars, runVars, fetchVars, obsVars>>

(***************************************************************************)
(* SpecRetrieve: /search requests against every small index                *)
(***************************************************************************)
SemanticScores == {Null, Some(200), Some(400), Some(800)}
KeywordScores == {Null, Some(Fix(1)), Some(Fix(3))}

\* a market_rankings row with the given total_score
RankedAt(total) ==
    [total_score |-> total, usage_score |-> 0, reputation_score |-> 0,
     activity_score |-> 0, reach_score |-> 0, is_zero_auth |-> FALSE, is_verified |-> FALSE]

\* An index of one tool more than candidate_limit, every tool an embedding hit
\* above the relevance bar, no two of the same score
FullIndex == [t \in 1..(candidate_limit + 1) |-> Some(Fix(1) - 5 * t)]

InitRetrieve ==
    /\ worker = "github"
    /\ now = ScoreClock
    /\ servers_table = [i \in 1..MaxServers |-> i]
    /\ data_rows = [s \in 1..MaxServers |-> NoData]
    /\ enrichment_status = [s \in 1..MaxServers |-> NoRow]
    /\ committed = [enrichment_status |-> enrichment_status, data_rows |-> data_rows]
    /\ parsable = 1..MaxServers
    /\ token = TRUE
    /\ InitRun
    /\ InitFetcher
    /\ config_references = [s \in ServerSet |-> <<>>]
    /\ dependency_signals = [s \in ServerSet |-> <<>>]
    /\ github_signals = <<>>
    /\ package_downloads = [s \in ServerSet |-> 0]
    /\ secret_env_vars = [s \in ServerSet |-> 0]
    /\ spc = "idle"
    /\ prefetched = <<>>
    /\ server_raw_results = <<>>
    /\ backlink_edges = {}
    /\ backlink_scores = <<>>
    /\ \/ /\ \E ranked \in SUBSET ServerSet :
                market_rankings = [s \in ranked |-> RankedAt(500)]
          /\ s_scores \in [Tools -> SemanticScores]
          /\ k_raws \in [Tools -> KeywordScores]
       \/ /\ market_rankings = <<>>
          /\ s_scores = FullIndex
          /\ k_raws = [t \in DOMAIN FullIndex |-> Null]
    /\ InitRetriever
    /\ InitNoGateway

NextRetrieve == search_tools \/ hybrid_search \/ Respond

SpecRetrieve == InitRetrieve /\ [][NextRetrieve]_vars

(***************************************************************************)
(* Placeholder resolution: resolve_env_vars (mcp_client.py)                *)
(***************************************************************************)
\* A JSON value: a string, another scalar, or a dict / list of values (a dict
\* is held as the sequence of its values)
Str(t) == [type |-> "str", text |-> t, items |-> <<>>]
Num == [type |-> "num", text |-> <<>>, items |-> <<>>]
Dict(vs) == [type |-> "dict", text |-> <<>>, items |-> vs]

\* str.startswith
StartsWith(s, pre) == Len(s) >= Len(pre) /\ SubSeq(s, 1, Len(pre)) = pre

EnvPrefix == <<"E", "N", "V", ":">>
InputPrefix == <<"i", "n", "p", "u", "t", ":">>

\* os.environ.get(name)
Getenv(name) == IF name \in DOMAIN os_environ THEN Some(os_environ[name]) ELSE Null

\* Index of the first "}" of s at or after j, 0 if there is none
FirstClose(s, j) ==
    IF \E k \in j..Len(s) : s[k] = "}"
    THEN CHOOSE k \in j..Len(s) : s[k] = "}" /\ \A m \in j..(k - 1) : s[m] # "}"
    ELSE 0

\* A match of r'\${(?:input:)?([^}]+)}' starting at index i of s: group 1 and
\* the index of the closing brace.  "input:" is skipped only when a name
\* follows it.
MatchAt(s, i) ==
    IF i + 1 <= Len(s) /\ s[i] = "$" /\ s[i + 1] = "{"
    THEN LET c == FirstClose(s, i + 2)
         IN  IF c = 0 \/ c = i + 2 THEN Null
             ELSE LET inner == SubSeq(s, i + 2, c - 1)
                      skip  == StartsWith(inner, InputPrefix) /\ Len(inner) > Len(InputPrefix)
                  IN  Some([var_name |-> IF skip
                                         THEN SubSeq(inner, Len(InputPrefix) + 1, Len(inner))
                                         ELSE inner,
                            end |-> c])
    ELSE Null

\* replace_match: the variable's value, or the matched text when it is unset
replace_match_Blank(s, i, m) ==
    IF Getenv(m.var_name) # Null THEN Getenv(m.var_name)[1] ELSE <<>>
replace_match(s, i, m) ==
    IF Getenv(m.var_name) # Null THEN Getenv(m.var_name)[1] ELSE SubSeq(s, i, m.end)

\* re.sub(pattern, replace_match, data): leftmost matches, left to right, the
\* replacement text is not scanned again
RECURSIVE SubFrom(_, _)
SubFrom(s, i) ==
    IF i > Len(s) THEN <<>>
    ELSE LET m == MatchAt(s, i)
         IN  IF m = Null THEN <<s[i]>> \o SubFrom(s, i + 1)
             ELSE replace_match(s, i, m[1]) \o SubFrom(s, m[1].end + 1)

\* The str branch of resolve_env_vars
ResolveStr(data) ==
    IF StartsWith(data, EnvPrefix)
    THEN LET v == Getenv(SubSeq(data, 5, Len(data))) IN IF v # Null THEN v[1] ELSE data
    ELSE SubFrom(data, 1)

RECURSIVE resolve_env_vars(_)
resolve_env_vars(data) ==
    IF data.type \in {"dict", "list"}
    THEN [data EXCEPT !.items = [i \in DOMAIN data.items |-> resolve_env_vars(data.items[i])]]
    ELSE IF data.type = "str" THEN Str(ResolveStr(data.text))
    ELSE data

(***************************************************************************)
(* SpecResolve: resolve_env_vars applied to a string, then to its result,  *)
(* for every short string over the placeholder syntax and every            *)
(* environment of two variables                                            *)
(***************************************************************************)
VarA == <<"A">>
VarB == <<"B">>
Brace(name) == <<"$", "{">> \o name \o <<"}">>

\* The pieces the strings are made of
Pieces == {EnvPrefix, <<"$", "{">>, InputPrefix, <<"}">>, VarA, VarB, <<"x">>}
RECURSIVE Concat(_)
Concat(ps) == IF ps = <<>> THEN <<>> ELSE Head(ps) \o Concat(Tail(ps))

ResolveInputs == {Concat(ps) : ps \in UNION {[1..n -> Pieces] : n \in 1..MaxPieces}}

\* The values a variable of the environment may have
EnvValues == {<<"x">>, Brace(VarB), EnvPrefix \o VarB, Brace(VarA) \o <<"x">>}

Environments ==
    {[n \in names |-> vals[n]] :
        names \in SUBSET {VarA, VarB}, vals \in [{VarA, VarB} -> EnvValues]}

InitGatewayStore ==
    /\ worker = "github"
    /\ now = [day |-> 1, tod |-> 0]
    /\ servers_table = [i \in 1..MaxServers |-> i]
    /\ data_rows = [s \in 1..MaxServers |-> NoData]
    /\ enrichment_status = [s \in 1..MaxServers |-> NoRow]
    /\ committed = [enrichment_status |-> enrichment_status, data_rows |-> data_rows]
    /\ parsable = 1..MaxServers
    /\ token = TRUE
    /\ InitRun
    /\ InitFetcher
    /\ InitNoScores

InitResolve ==
    /\ InitGatewayStore
    /\ server_remotes = <<>>
    /\ server_packages = <<>>
    /\ server_local_sources = <<>>
    /\ tools_table = <<>>
    /\ tool_extraction_status = <<>>
    /\ InitGateway
    /\ InitExtractor
    /\ InitOffline
    /\ os_environ \in Environments
    /\ res_in \in ResolveInputs
    /\ res_out = <<>>

\* resolve_env_vars(res_in), then resolve_env_vars of what that returned
Resolve ==
    /\ Len(res_out) < 2
    /\ res_out' = Append(res_out,
                         resolve_env_vars(Str(IF res_out = <<>> THEN res_in
                                              ELSE res_out[Len(res_out)])).text)
    /\ UNCHANGED <<res_in, connVars, offlineVars, callVars, listVars, extrVars>>
    /\ UNCHANGED <<workerVars, scoreVars, retrVars, runVars, fetchVars, obsVars>>

NextResolve == Resolve

SpecResolve == InitResolve /\ [][NextResolve]_vars

(***************************************************************************)
(* The invocation gateway: get_server_connection_info and call_tool        *)
(* (server.py)                                                             *)
(***************************************************************************)
\* get_server_connection_info: the first of the remote row, a stdio package
\* row and the local source row; None without any
get_server_connection_info_LocalFirst(server_name) ==
    IF server_name \in DOMAIN server_local_sources /\ server_local_sources[server_name] # Null
    THEN Some([method |-> "local", headers |-> Null,
               env |-> server_local_sources[server_name][1].env])
    ELSE Null
get_server_connection_info(server_name) ==
    IF server_name \in DOMAIN server_remotes /\ server_remotes[server_name] # Null
    THEN LET headers == server_remotes[server_name][1].headers
         IN  Some([method |-> "remote",
                   headers |-> IF headers # Null /\ headers[1].items # <<>>
                               THEN Some(resolve_env_vars(headers[1]))
                               ELSE Null,
                   env |-> Null])
    ELSE IF server_name \in DOMAIN server_packages
            /\ \E i \in DOMAIN server_packages[server_name] :
                   server_packages[server_name][i] = "stdio"
    THEN Some([method |-> "stdio", headers |-> Null, env |-> Null])
    ELSE IF server_name \in DOMAIN server_local_sources
            /\ server_local_sources[server_name] # Null
    THEN Some([method |-> "local", headers |-> Null,
               env |-> server_local_sources[server_name][1].env])
    ELSE Null

NoException == [kind |-> "none", at |-> "none", message |-> "none"]

\* What an upstream failure may say
ErrorMessages == {"child exited", "connection refused"}

\* The server names a request may carry: the stored ones and an unknown one
RequestNames == Range(servers_table) \cup {Len(servers_table) + 1}

\* POST /call: resolve the connection info; 404 without any
call_tool ==
    /\ cpc \in {"idle", "responded", "cancelled"}
    /\ \E name \in RequestNames :
          /\ call_request' = name
          /\ call_info' = get_server_connection_info(name)
    /\ call_exc' = NoException
    /\ transport_args' = <<>>
    /\ IF call_info' = Null
       THEN /\ call_response' = [status |-> 404, detail |-> "not found"]
            /\ cpc' = "responded"
       ELSE /\ call_response' = NoCallResponse
            /\ cpc' = "open"
    /\ UNCHANGED <<transport_open, session_open>>
    /\ UNCHANGED <<connVars, offlineVars, listVars, extrVars, resVars>>
    /\ UNCHANGED <<workerVars, scoreVars, retrVars, runVars, fetchVars, obsVars>>

\* What the transport is given: the headers of the httpx client, or the env
\* values that env.update(info["env"]) adds to the child's environment
TransportArgs(info) ==
    IF info.method = "remote" THEN info.headers
    ELSE IF info.method = "local" THEN info.env
    ELSE Null

\* async with streamable_http_client(..) / stdio_client(..): the stream is
\* opened or the child is started, or the attempt raises
OpenTransport ==
    /\ cpc = "open"
    /\ \/ /\ transport_open' = TRUE
          /\ transport_args' = Some(TransportArgs(call_info[1]))
          /\ cpc' = "session"
          /\ UNCHANGED call_exc
       \/ /\ \E m \in ErrorMessages :
                call_exc' = [kind |-> "error", at |-> "open", message |-> m]
          /\ cpc' = "respond"
          /\ UNCHANGED <<transport_open, transport_args>>
    /\ UNCHANGED <<call_request, call_info, session_open, call_response>>
    /\ UNCHANGED <<connVars, offlineVars, listVars, extrVars, resVars>>
    /\ UNCHANGED <<workerVars, scoreVars, retrVars, runVars, fetchVars, obsVars>>

\* async with ClientSession(read, write) as session
OpenSession ==
    /\ cpc = "session"
    /\ session_open' = TRUE
    /\ cpc' = "initialize"
    /\ UNCHANGED <<call_request, call_info, transport_open, call_exc, call_response,
                   transport_args>>
    /\ UNCHANGED <<connVars, offlineVars, listVars, extrVars, resVars>>
    /\ UNCHANGED <<workerVars, scoreVars, retrVars, runVars, fetchVars, obsVars>>

\* How an awaited call of the session ends: it returns, asyncio.wait_for
\* raises TimeoutError, the call raises, or the request is cancelled
Awaited(at) ==
    {NoException,
     [kind |-> "timeout", at |-> at, message |-> "none"],
     [kind |-> "cancelled", at |-> at, message |-> "none"]}
    \cup {[kind |-> "error", at |-> at, message |-> m] : m \in ErrorMessages}

\* await asyncio.wait_for(session.initialize(), timeout=timeout)
Initialize ==
    /\ cpc = "initialize"
    /\ call_exc' \in Awaited("initialize")
    /\ cpc' = IF call_exc' = NoException THEN "call" ELSE "close_session"
    /\ UNCHANGED <<call_request, call_info, transport_open, session_open, call_response,
                   transport_args>>
    /\ UNCHANGED <<connVars, offlineVars, listVars, extrVars, resVars>>
    /\ UNCHANGED <<workerVars, scoreVars, retrVars, runVars, fetchVars, obsVars>>

\* await asyncio.wait_for(session.call_tool(..), timeout=timeout); return
SessionCallTool ==
    /\ cpc = "call"
    /\ call_exc' \in Awaited("call_tool")
    /\ cpc' = "close_session"
    /\ UNCHANGED <<call_request, call_info, transport_open, session_open, call_response,
                   transport_args>>
    /\ UNCHANGED <<connVars, offlineVars, listVars, extrVars, resVars>>
    /\ UNCHANGED <<workerVars, scoreVars, retrVars, runVars, fetchVars, obsVars>>

\* Whether the resource of an `async with` is still open after the block is
\* left with the given exception
AsyncWithExit_LeakOnCancel(exc) == exc.kind = "cancelled"
AsyncWithExit(exc) == FALSE

\* Leaving `async with ClientSession(..)`, by return or by exception
CloseSession ==
    /\ cpc = "close_session"
    /\ session_open' = AsyncWithExit(call_exc)
    /\ cpc' = "close_transport"
    /\ UNCHANGED <<call_request, call_info, transport_open, call_exc, call_response,
                   transport_args>>
    /\ UNCHANGED <<connVars, offlineVars, listVars, extrVars, resVars>>
    /\ UNCHANGED <<workerVars, scoreVars, retrVars, runVars, fetchVars, obsVars>>

\* Leaving `async with streamable_http_client(..)` / `stdio_client(..)`
CloseTransport ==
    /\ cpc = "close_transport"
    /\ transport_open' = AsyncWithExit(call_exc)
    /\ cpc' = "respond"
    /\ UNCHANGED <<call_request, call_info, session_open, call_exc, call_response,
                   transport_args>>
    /\ UNCHANGED <<connVars, offlineVars, listVars, extrVars, resVars>>
    /\ UNCHANGED <<workerVars, scoreVars, retrVars, runVars, fetchVars, obsVars>>

\* The except clauses of call_tool: TimeoutError is 504, any other Exception
\* is 500 with str(e); the returned result is 200
ResponseFor_TimeoutAsError(exc) ==
    IF exc.kind = "none" THEN [status |-> 200, detail |-> "none"]
    ELSE [status |-> 500, detail |-> exc.message]
ResponseFor(exc) ==
    IF exc.kind = "none" THEN [status |-> 200, detail |-> "none"]
    ELSE IF exc.kind = "timeout"
    THEN [status |-> 504, detail |-> "Tool execution timed out."]
    ELSE [status |-> 500, detail |-> exc.message]

\* The end of call_tool: a response, or, for CancelledError, which no except
\* clause catches, none
CallRespond ==
    /\ cpc = "respond"
    /\ IF call_exc.kind = "cancelled"
       THEN /\ cpc' = "cancelled"
            /\ UNCHANGED call_response
       ELSE /\ cpc' = "responded"
            /\ call_response' = ResponseFor(call_exc)
    /\ UNCHANGED <<call_request, call_info, transport_open, session_open, call_exc,
                   transport_args>>
    /\ UNCHANGED <<connVars, offlineVars, listVars, extrVars, resVars>>
    /\ UNCHANGED <<workerVars, scoreVars, retrVars, runVars, fetchVars, obsVars>>

(***************************************************************************)
(* SpecCall: POST /call requests for a server with every combination of    *)
(* connection rows, for a server with none, and for an unknown server      *)
(***************************************************************************)
\* A header or env value as stored: text and placeholders
Lit(t) == [kind |-> "lit", name |-> t]
Env(n) == [kind |-> "env", name |-> n]
Var(n) == [kind |-> "brace", name |-> n]
Input(n) == [kind |-> "input", name |-> n]

ValueTemplates ==
    {<<Lit(<<"x">>)>>,
     <<Env(VarA)>>,
     <<Lit(<<"x", " ">>), Var(VarA)>>,
     <<Input(VarA), Lit(<<"x">>)>>,
     <<Var(VarA), Var(VarB)>>}

\* The stored text of a template
Render(seg) ==
    IF seg.kind = "lit" THEN seg.name
    ELSE IF seg.kind = "env" THEN EnvPrefix \o seg.name
    ELSE IF seg.kind = "brace" THEN Brace(seg.name)
    ELSE <<"$", "{">> \o InputPrefix \o seg.name \o <<"}">>
Stored(tpl) == Concat([i \in DOMAIN tpl |-> Render(tpl[i])])

StoredValues == {Str(Stored(tpl)) : tpl \in ValueTemplates} \cup {Num}

CallEnvironments == {[n \in names |-> <<"t">>] : names \in SUBSET {VarA}}

InitCall ==
    /\ InitGatewayStore
    /\ \E remote \in {Null, Some([headers |-> Null])}
                      \cup {Some([headers |-> Some(Dict(<<v>>))]) : v \in StoredValues} :
          server_remotes = [s \in ServerSet |-> IF s = 1 THEN remote ELSE Null]
    /\ \E pkgs \in {<<>>, <<"sse">>, <<"sse", "stdio">>} :
          server_packages = [s \in ServerSet |-> IF s = 1 THEN pkgs ELSE <<>>]
    /\ \E local \in {Null, Some([env |-> Dict(<<>>)])}
                     \cup {Some([env |-> Dict(<<v>>)]) : v \in StoredValues} :
          server_local_sources = [s \in ServerSet |-> IF s = 1 THEN local ELSE Null]
    /\ os_environ \in CallEnvironments
    /\ tools_table = <<>>
    /\ tool_extraction_status = <<>>
    /\ res_in = <<>>
    /\ res_out = <<>>
    /\ InitGateway
    /\ InitExtractor
    /\ InitOffline

NextCall ==
    \/ call_tool
    \/ OpenTransport
    \/ OpenSession
    \/ Initialize
    \/ SessionCallTool
    \/ CloseSession
    \/ CloseTransport
    \/ CallRespond

SpecCall == InitCall /\ [][NextCall]_vars

(***************************************************************************)
(* Tool extraction (mcp_client.py): categorize_failure,                    *)
(* update_extraction_status, get_connectable_servers, extract_from_server  *)
(* and extract_all_tools                                                   *)
(***************************************************************************)
\* The pattern lists of categorize_failure, in the order they are tried
permanent_patterns ==
    <<
      [pattern |-> <<"n","o","t"," ","f","o","u","n","d">>,
       category |-> "permanent", reason |-> "package_not_found"],
      [pattern |-> <<"4","0","4">>,
       category |-> "permanent", reason |-> "http_404"],
      [pattern |-> <<"c","o","u","l","d"," ","n","o","t"," ","d","e","t","e","r","m","i","n","e"," ","e","x","e","c","u","t","a","b","l","e">>,
       category |-> "permanent", reason |-> "no_executable"],
      [pattern |-> <<"n","o"," ","s","u","c","h"," ","f","i","l","e"," ","o","r"," ","d","i","r","e","c","t","o","r","y">>,
       category |-> "permanent", reason |-> "file_not_found"],
      [pattern |-> <<"p","a","c","k","a","g","e"," ","n","o","t"," ","f","o","u","n","d">>,
       category |-> "permanent", reason |-> "package_not_found"],
      [pattern |-> <<"m","o","d","u","l","e"," ","n","o","t"," ","f","o","u","n","d">>,
       category |-> "permanent", reason |-> "module_not_found"],
      [pattern |-> <<"r","e","g","i","s","t","r","y"," ","e","r","r","o","r">>,
       category |-> "permanent", reason |-> "registry_error"],
      [pattern |-> <<"i","n","v","a","l","i","d"," ","u","r","l">>,
       category |-> "permanent", reason |-> "invalid_url"]
    >>

auth_patterns ==
    <<
      [pattern |-> <<"4","0","1">>,
       category |-> "auth_required", reason |-> "http_401"],
      [pattern |-> <<"4","0","3">>,
       category |-> "auth_required", reason |-> "http_403"],
      [pattern |-> <<"u","n","a","u","t","h","o","r","i","z","e","d">>,
       category |-> "auth_required", reason |-> "unauthorized"],
      [pattern |-> <<"f","o","r","b","i","d","d","e","n">>,
       category |-> "auth_required", reason |-> "forbidden"],
      [pattern |-> <<"a","u","t","h","e","n","t","i","c","a","t","i","o","n"," ","r","e","q","u","i","r","e","d">>,
       category |-> "auth_required", reason |-> "auth_required"]
    >>

docker_patterns ==
    <<
      [pattern |-> <<"d","o","c","k","e","r">>,
       category |-> "permanent", reason |-> "docker_not_running"],
      [pattern |-> <<"c","o","n","t","a","i","n","e","r">>,
       category |-> "permanent", reason |-> "container_error"],
      [pattern |-> <<"d","a","e","m","o","n">>,
       category |-> "permanent", reason |-> "daemon_not_running"]
    >>

transient_patterns ==
    <<
      [pattern |-> <<"t","i","m","e","o","u","t">>,
       category |-> "transient", reason |-> "timeout"],
      [pattern |-> <<"t","i","m","e","d"," ","o","u","t">>,
       category |-> "transient", reason |-> "timeout"],
      [pattern |-> <<"c","o","n","n","e","c","t","i","o","n"," ","r","e","f","u","s","e","d">>,
       category |-> "transient", reason |-> "connection_refused"],
      [pattern |-> <<"c","o","n","n","e","c","t","i","o","n"," ","r","e","s","e","t">>,
       category |-> "transient", reason |-> "connection_reset"],
      [pattern |-> <<"r","a","t","e"," ","l","i","m","i","t">>,
       category |-> "transient", reason |-> "rate_limited"],
      [pattern |-> <<"5","0","0">>,
       category |-> "transient", reason |-> "http_500"],
      [pattern |-> <<"5","0","2">>,
       category |-> "transient", reason |-> "http_502"],
      [pattern |-> <<"5","0","3">>,
       category |-> "transient", reason |-> "http_503"],
      [pattern |-> <<"5","0","4">>,
       category |-> "transient", reason |-> "http_504"],
      [pattern |-> <<"s","e","r","v","e","r"," ","e","r","r","o","r">>,
       category |-> "transient", reason |-> "server_error"]
    >>

protocol_errors ==
    <<
      [pattern |-> <<"t","a","s","k","g","r","o","u","p">>,
       category |-> "permanent", reason |-> "mcp_protocol_error"],
      [pattern |-> <<"s","u","b","-","e","x","c","e","p","t","i","o","n">>,
       category |-> "permanent", reason |-> "mcp_protocol_error"],
      [pattern |-> <<"u","n","h","a","n","d","l","e","d"," ","e","r","r","o","r","s">>,
       category |-> "permanent", reason |-> "mcp_protocol_error"],
      [pattern |-> <<"t","o","o"," ","m","a","n","y"," ","v","a","l","u","e","s"," ","t","o"," ","u","n","p","a","c","k">>,
       category |-> "permanent", reason |-> "mcp_response_error"],
      [pattern |-> <<"c","a","n","n","o","t"," ","u","n","p","a","c","k">>,
       category |-> "permanent", reason |-> "mcp_response_error"],
      [pattern |-> <<"n","o","t"," ","e","n","o","u","g","h"," ","v","a","l","u","e","s">>,
       category |-> "permanent", reason |-> "mcp_response_error"],
      [pattern |-> <<"u","n","e","x","p","e","c","t","e","d"," ","k","e","y","w","o","r","d"," ","a","r","g","u","m","e","n","t">>,
       category |-> "permanent", reason |-> "mcp_sdk_error"],
      [pattern |-> <<"t","y","p","e"," ","e","r","r","o","r">>,
       category |-> "permanent", reason |-> "mcp_type_error"],
      [pattern |-> <<"a","t","t","r","i","b","u","t","e"," ","e","r","r","o","r">>,
       category |-> "permanent", reason |-> "mcp_attribute_error"],
      [pattern |-> <<"j","s","o","n"," ","d","e","c","o","d","e">>,
       category |-> "permanent", reason |-> "mcp_invalid_response"],
      [pattern |-> <<"i","n","v","a","l","i","d"," ","j","s","o","n">>,
       category |-> "permanent", reason |-> "mcp_invalid_response"]
    >>

AllPatterns ==
    permanent_patterns \o auth_patterns \o docker_patterns \o transient_patterns
        \o protocol_errors

\* categorize_failure(error_message): the first pattern found in the
\* lower-cased message decides; <<>> is None or ""
categorize_failure(error_message) ==
    IF error_message = NoText
    THEN [category |-> "unknown", reason |-> "no error message"]
    ELSE LET error_lower == Lower(error_message)
             hits == {i \in DOMAIN AllPatterns : Contains(AllPatterns[i].pattern, error_lower)}
         IN  IF hits = {}
             THEN [category |-> "transient", reason |-> "unknown_error"]
             ELSE LET first == CHOOSE i \in hits : \A j \in hits : i <= j
                  IN  [category |-> AllPatterns[first].category,
                       reason |-> AllPatterns[first].reason]

\* The tool_extraction_status row of a server after update_extraction_status,
\* from its row before (Null: none)
update_extraction_status_ClearsLastSuccess(old, success, connection_method, error_message, tools_count, at) ==
    IF success
    THEN [status |-> "success", failure_category |-> "NULL", failure_reason |-> "NULL",
          tools_count |-> tools_count, connection_method |-> connection_method,
          last_attempted_at |-> at, last_successful_at |-> Some(at), retry_count |-> 0]
    ELSE LET c == categorize_failure(error_message)
         IN  [status |-> IF c.category = "permanent" THEN "permanent_failure"
                         ELSE "transient_failure",
              failure_category |-> c.category, failure_reason |-> c.reason,
              tools_count |-> IF old = Null THEN 0 ELSE old[1].tools_count,
              connection_method |-> connection_method,
              last_attempted_at |-> at, last_successful_at |-> Null,
              retry_count |-> IF old = Null THEN 1 ELSE old[1].retry_count + 1]
update_extraction_status(old, success, connection_method, error_message, tools_count, at) ==
    IF success
    THEN [status |-> "success", failure_category |-> "NULL", failure_reason |-> "NULL",
          tools_count |-> tools_count, connection_method |-> connection_method,
          last_attempted_at |-> at, last_successful_at |-> Some(at), retry_count |-> 0]
    ELSE LET c == categorize_failure(error_message)
             status == IF c.category = "permanent" THEN "permanent_failure"
                       ELSE "transient_failure"
         IN  IF old = Null
             THEN [status |-> status,
                   failure_category |-> c.category, failure_reason |-> c.reason,
                   tools_count |-> 0, connection_method |-> connection_method,
                   last_attempted_at |-> at, last_successful_at |-> Null, retry_count |-> 1]
             ELSE [old[1] EXCEPT !.status = status,
                                 !.failure_category = c.category,
                                 !.failure_reason = c.reason,
                                 !.connection_method = connection_method,
                                 !.last_attempted_at = at,
                                 !.retry_count = @ + 1]

\* The rows of a query over the servers in the order sqlite scans them, for
\* the servers that satisfy P, as (name, connection_method) entries
RECURSIVE ServersWith(_, _, _)
ServersWith(list, method, keep) ==
    IF list = <<>> THEN <<>>
    ELSE (IF Head(list) \in keep
          THEN <<[name |-> Head(list), connection_method |-> method]>> ELSE <<>>)
         \o ServersWith(Tail(list), method, keep)

\* get_connectable_servers(conn, skip_auth, skip_extracted), query = None
get_connectable_servers(skip_auth, skip_extracted) ==
    LET already_extracted == {s \in ServerSet : tools_table[s] # <<>>}
        permanent ==
            {s \in ServerSet : /\ tool_extraction_status[s] # Null
                               /\ tool_extraction_status[s][1].status = "permanent_failure"}
        skip_set == IF skip_extracted THEN already_extracted \cup permanent ELSE {}
        requires_auth == {s \in ServerSet : secret_env_vars[s] > 0}
        no_auth == IF skip_auth THEN requires_auth ELSE {}
    IN  ServersWith(servers_table, "remote",
                    {s \in ServerSet : server_remotes[s] # Null} \ (skip_set \cup no_auth))
        \o ServersWith(servers_table, "stdio",
                       {s \in ServerSet : "stdio" \in Range(server_packages[s])}
                           \ (skip_set \cup no_auth))
        \o ServersWith(servers_table, "local",
                       {s \in ServerSet : server_local_sources[s] # Null} \ skip_set)

\* [s for s in servers if s.get('connection_method') == 'remote']
RECURSIVE RemoteOnly(_)
RemoteOnly(list) ==
    IF list = <<>> THEN <<>>
    ELSE (IF Head(list).connection_method = "remote" THEN <<Head(list)>> ELSE <<>>)
         \o RemoteOnly(Tail(list))

\* Error texts a connection attempt may end with (str(e), or the timeout text
\* of fetch_from_http / fetch_from_stdio)
MsgHttp401 == <<"H","T","T","P"," ","4","0","1">>
Msg403Forbidden == <<"4","0","3"," ","F","o","r","b","i","d","d","e","n">>
MsgUnauthorized == <<"U","n","a","u","t","h","o","r","i","z","e","d">>
MsgNotFound == <<"4","0","4"," ","N","o","t"," ","F","o","u","n","d">>
MsgTimedOut == <<"C","o","n","n","e","c","t","i","o","n"," ","t","i","m","e","d"," ","o","u","t"," ","a","f","t","e","r"," ","3","0","s">>

ErrorTexts == {MsgHttp401, Msg403Forbidden, MsgUnauthorized, MsgNotFound, MsgTimedOut}

\* What a connection attempt returns: (tools, resources + prompts, error)
ToolNames == <<"t1", "t2">>
FetchResults ==
    {[tools |-> <<>>, others |-> 0, error |-> e] : e \in ErrorTexts}
    \cup {[tools |-> t, others |-> n, error |-> NoText] :
             t \in {<<>>, ToolNames}, n \in {0, 1}}

\* extract_all_tools(max_servers, remote_only, skip_auth, skip_extracted);
\* skip_extracted is False under --clean
extract_all_tools ==
    /\ xpc \in {"idle", "done"}
    /\ utcnow < MaxAttempts
    /\ \E skip_extracted \in BOOLEAN, skip_auth \in BOOLEAN, remote_only \in BOOLEAN,
          max_servers \in {1, 50} :
          /\ x_args' = [skip_extracted |-> skip_extracted, skip_auth |-> skip_auth,
                        remote_only |-> remote_only, max_servers |-> max_servers]
          /\ x_servers' =
                LET found == get_connectable_servers(skip_auth, skip_extracted)
                IN  Take(IF remote_only THEN RemoteOnly(found) ELSE found, max_servers)
    /\ x_idx' = 1
    /\ x_error' = NoText
    /\ xpc' = "loop"
    /\ UNCHANGED <<tool_extraction_status, utcnow>>
    /\ UNCHANGED <<connVars, offlineVars, callVars, listVars, resVars>>
    /\ UNCHANGED <<workerVars, scoreVars, retrVars, runVars, fetchVars, obsVars>>

\* One iteration of the loop: extract_from_server(conn, server)
extract_from_server ==
    /\ xpc = "loop"
    /\ x_idx <= Len(x_servers)
    /\ utcnow < MaxAttempts
    /\ \E r \in FetchResults :
          LET server  == x_servers[x_idx]
              success == r.error = NoText /\ (Len(r.tools) > 0 \/ r.others > 0)
          IN  /\ tool_extraction_status' =
                    [tool_extraction_status EXCEPT ![server.name] =
                        Some(update_extraction_status(@, success, server.connection_method,
                                                      r.error, Len(r.tools), utcnow + 1))]
              /\ tools_table' =
                    IF success /\ r.tools # <<>>
                    THEN [tools_table EXCEPT ![server.name] = r.tools]
                    ELSE tools_table
              /\ x_error' = r.error
    /\ utcnow' = utcnow + 1
    /\ x_idx' = x_idx + 1
    /\ UNCHANGED <<xpc, x_servers, x_args, list_response>>
    /\ UNCHANGED <<connVars, offlineVars, callVars, resVars>>
    /\ UNCHANGED <<workerVars, scoreVars, retrVars, runVars, fetchVars, obsVars>>

\* The loop is over (or the clock of the model has run out): conn.close()
FinishExtraction ==
    /\ xpc = "loop"
    /\ x_idx > Len(x_servers) \/ utcnow >= MaxAttempts
    /\ xpc' = "done"
    /\ UNCHANGED <<tool_extraction_status, utcnow, x_servers, x_idx, x_args, x_error>>
    /\ UNCHANGED <<connVars, offlineVars, callVars, listVars, resVars>>
    /\ UNCHANGED <<workerVars, scoreVars, retrVars, runVars, fetchVars, obsVars>>

(***************************************************************************)
(* SpecExtract: extraction runs, with and without --clean, over a store of *)
(* a remote server and a stdio or local one                                *)
(***************************************************************************)
InitExtract ==
    /\ worker = "github"
    /\ now = [day |-> 1, tod |-> 0]
    /\ servers_table = [i \in 1..MaxServers |-> i]
    /\ data_rows = [s \in 1..MaxServers |-> NoData]
    /\ enrichment_status = [s \in 1..MaxServers |-> NoRow]
    /\ committed = [enrichment_status |-> enrichment_status, data_rows |-> data_rows]
    /\ parsable = 1..MaxServers
    /\ token = TRUE
    /\ InitRun
    /\ InitFetcher
    /\ InitNoIndex
    /\ InitScorer
    /\ config_references = [s \in ServerSet |-> <<>>]
    /\ dependency_signals = [s \in ServerSet |-> <<>>]
    /\ github_signals = <<>>
    /\ package_downloads = [s \in ServerSet |-> 0]
    /\ \E secret \in {0, 1} : secret_env_vars = [s \in ServerSet |-> IF s = 1 THEN secret ELSE 0]
    /\ server_remotes = [s \in ServerSet |-> IF s = 1 THEN Some([headers |-> Null]) ELSE Null]
    /\ \E pkgs \in {<<>>, <<"stdio">>} :
          /\ server_packages = [s \in ServerSet |-> IF s = 1 THEN <<>> ELSE pkgs]
          /\ server_local_sources =
                [s \in ServerSet |-> IF s # 1 /\ pkgs = <<>>
                                     THEN Some([env |-> Dict(<<>>)]) ELSE Null]
    /\ os_environ = <<>>
    /\ tools_table = [s \in ServerSet |-> <<>>]
    /\ tool_extraction_status = [s \in ServerSet |-> Null]
    /\ res_in = <<>>
    /\ res_out = <<>>
    /\ InitGateway
    /\ InitExtractor
    /\ InitOffline

NextExtract == extract_all_tools \/ extract_from_server \/ FinishExtraction

SpecExtract == InitExtract /\ [][NextExtract]_vars

(***************************************************************************)
(* GET /servers/<name>/tools: list_server_tools (server.py) and            *)
(* Retriever.get_tools_for_server (retriever.py)                           *)
(***************************************************************************)
\* SELECT .. FROM v_tools_full WHERE server_name = ?: the tools rows of the
\* server, joined with its servers row
get_tools_for_server(server_name) ==
    IF server_name \in ServerSet /\ server_name \in DOMAIN tools_table
    THEN [i \in DOMAIN tools_table[server_name] |->
             [name |-> tools_table[server_name][i], server |-> server_name]]
    ELSE <<>>

list_server_tools ==
    /\ \E server_name \in RequestNames :
          list_response' = [status |-> 200, server |-> server_name,
                            tools |-> get_tools_for_server(server_name)]
    /\ UNCHANGED tools_table
    /\ UNCHANGED <<connVars, offlineVars, callVars, extrVars, resVars>>
    /\ UNCHANGED <<workerVars, scoreVars, retrVars, runVars, fetchVars, obsVars>>

(***************************************************************************)
(* SpecList: listing requests against every small tools table              *)
(***************************************************************************)
ToolLists == {<<>>, <<"t1">>, <<"t2">>, <<"t1", "t2">>, <<"t2", "t1">>, <<"t1", "t2", "t3">>}

InitList ==
    /\ InitGatewayStore
    /\ server_remotes = <<>>
    /\ server_packages = <<>>
    /\ server_local_sources = <<>>
    /\ os_environ = <<>>
    /\ tools_table \in [ServerSet -> ToolLists]
    /\ tool_extraction_status = <<>>
    /\ res_in = <<>>
    /\ res_out = <<>>
    /\ InitGateway
    /\ InitExtractor
    /\ InitOffline

NextList == list_server_tools

SpecList == InitList /\ [][NextList]_vars

(***************************************************************************)
(* SpecStatus: update_enrichment_status called again and again for the     *)
(* (server, enrichment type) pairs of one type, rows absent at first       *)
(***************************************************************************)
\* failure_reason arguments: the literals the workers pass, a text that is
\* categorized permanent, and None
FailureReasons == {MsgPackageNotFound, MsgImageNotFound, PatNotFound, NoText}

InitStatus ==
    /\ InitGatewayStore
    /\ InitNoConnections
    /\ status_log = [s \in ServerSet |-> <<>>]
    /\ InitNoEmbeddings
    /\ InitNoParse
    /\ InitNoRequests
    /\ InitNoPool
    /\ InitNoCosts

\* update_enrichment_status(conn, server_name, enrichment_type, success,
\* failure_reason), conn.commit() included
UpdateStatus ==
    /\ \E s \in ServerSet, success \in BOOLEAN, failure_reason \in FailureReasons :
          /\ Len(status_log[s]) < MaxUpdates
          /\ success => failure_reason = NoText
          /\ enrichment_status' =
                update_enrichment_status(enrichment_status, s, success, failure_reason, now)
          /\ status_log' = [status_log EXCEPT ![s] = Append(@, success)]
    /\ committed' = [enrichment_status |-> enrichment_status', data_rows |-> data_rows]
    /\ UNCHANGED <<servers_table, data_rows, scoreVars, retrVars>>
    /\ UNCHANGED <<connVars, callVars, listVars, extrVars, resVars, embedVars, parseVars, dbVars, poolVars, costVars>>
    /\ UNCHANGED <<runVars, fetchVars, obsVars>>

NextStatus == UpdateStatus

SpecStatus == InitStatus /\ [][NextStatus]_vars

(***************************************************************************)
(* SpecEmbed: runs of RelevanceEngine.update_embeddings (relevance.py)     *)
(* over a small tools_search table, each run completed or interrupted      *)
(***************************************************************************)
\* batch_size of update_embeddings when the argument is not given
DefaultBatchSize == 16

BatchSizes == {1, 2, DefaultBatchSize}

\* tools_search.full_doc of a tool, and self.model.encode of a document
FullDoc(tool_id) == <<"d", tool_id>>
Encode(doc) == <<"v", doc[2]>>

EmbeddingRow(tool_id, embedding) == [tool_id |-> tool_id, embedding |-> embedding]

\* SELECT ts.tool_id, ts.full_doc FROM tools_search ts LEFT JOIN tool_embeddings te
\* ON ts.tool_id = te.tool_id WHERE te.tool_id IS NULL
DocsNeedingEmbeddings_All(docs, embeddings) == docs
DocsNeedingEmbeddings(docs, embeddings) == docs \ {row.tool_id : row \in embeddings}

\* fetchall(): the rows in the order of tools_search's primary key
RECURSIVE Ascending(_)
Ascending(ids) ==
    IF ids = {} THEN <<>>
    ELSE LET m == CHOOSE x \in ids : \A y \in ids : x <= y
         IN  <<m>> \o Ascending(ids \ {m})

\* INSERT OR REPLACE INTO tool_embeddings(tool_id, embedding)
ReplaceEmbedding(table, row) == {r \in table : r.tool_id # row.tool_id} \cup {row}

RECURSIVE ReplaceEmbeddings(_, _)
ReplaceEmbeddings(table, ids) ==
    IF ids = <<>> THEN table
    ELSE ReplaceEmbeddings(ReplaceEmbedding(table, EmbeddingRow(Head(ids), Encode(FullDoc(Head(ids))))),
                           Tail(ids))

\* rows[i:i + batch_size], i counted from 0
Batch(rows, i, size) == SubSeq(rows, i + 1, Min(i + size, Len(rows)))

RunRecord(end, batches) == [end |-> end, batches |-> batches]

\* update_embeddings touches the embedding tables only
EmbedFrame ==
    /\ UNCHANGED <<workerVars, scoreVars, retrVars>>
    /\ UNCHANGED <<connVars, callVars, listVars, extrVars, resVars, status_log, parseVars, dbVars, poolVars, costVars>>
    /\ UNCHANGED <<runVars, fetchVars, obsVars>>

\* conn = get_connection(...), the SELECT, and `if not rows: return`
StartUpdate ==
    /\ upc = "idle"
    /\ Len(u_hist) < MaxEmbedRuns
    /\ \E size \in BatchSizes : u_batch_size' = size
    /\ u_rows' = Ascending(DocsNeedingEmbeddings(search_docs, tool_embeddings))
    /\ u_i' = 0
    /\ u_encoded' = {}
    /\ IF u_rows' = <<>>
       THEN /\ upc' = "idle"
            /\ u_hist' = Append(u_hist, RunRecord("completed", 0))
       ELSE /\ upc' = "loop"
            /\ u_hist' = u_hist
    /\ UNCHANGED <<search_docs, tool_embeddings, committed_embeddings>>
    /\ EmbedFrame

\* One batch: encode and the INSERT OR REPLACE of each of its rows
EncodeBatch ==
    /\ upc = "loop"
    /\ u_i < Len(u_rows)
    /\ u_encoded' = u_encoded \cup Range(Batch(u_rows, u_i, u_batch_size))
    /\ tool_embeddings' = ReplaceEmbeddings(tool_embeddings, Batch(u_rows, u_i, u_batch_size))
    /\ upc' = "commit"
    /\ UNCHANGED <<search_docs, committed_embeddings, u_rows, u_i, u_batch_size, u_hist>>
    /\ EmbedFrame

\* conn.commit() after the batch
CommitBatch ==
    /\ upc = "commit"
    /\ committed_embeddings' = tool_embeddings
    /\ u_i' = u_i + u_batch_size
    /\ upc' = "loop"
    /\ UNCHANGED <<search_docs, tool_embeddings, u_rows, u_batch_size, u_encoded, u_hist>>
    /\ EmbedFrame

\* The loop is over: conn.close()
CloseUpdate ==
    /\ upc = "loop"
    /\ u_i >= Len(u_rows)
    /\ upc' = "idle"
    /\ u_hist' = Append(u_hist, RunRecord("completed", Len(u_rows)))
    /\ UNCHANGED <<search_docs, tool_embeddings, committed_embeddings, u_rows, u_i,
                   u_batch_size, u_encoded>>
    /\ EmbedFrame

\* The process is stopped: what was not committed is rolled back
InterruptUpdate ==
    /\ upc \in {"loop", "commit"}
    /\ tool_embeddings' = committed_embeddings
    /\ upc' = "idle"
    /\ u_hist' = Append(u_hist, RunRecord("interrupted", Min(u_i, Len(u_rows))))
    /\ UNCHANGED <<search_docs, committed_embeddings, u_rows, u_i, u_batch_size, u_encoded>>
    /\ EmbedFrame

InitEmbed ==
    /\ InitGatewayStore
    /\ InitNoConnections
    /\ InitNoStatusLog
    /\ search_docs \in SUBSET (1..MaxDocs)
    /\ committed_embeddings \in
          {{EmbeddingRow(d, Encode(FullDoc(d))) : d \in ds} : ds \in SUBSET (1..MaxDocs)}
    /\ tool_embeddings = committed_embeddings
    /\ upc = "idle"
    /\ u_rows = <<>>
    /\ u_i = 0
    /\ u_batch_size = DefaultBatchSize
    /\ u_encoded = {}
    /\ u_hist = <<>>
    /\ InitNoParse
    /\ InitNoRequests
    /\ InitNoPool
    /\ InitNoCosts

NextEmbed ==
    \/ StartUpdate
    \/ EncodeBatch
    \/ CommitBatch
    \/ CloseUpdate
    \/ InterruptUpdate

SpecEmbed == InitEmbed /\ [][NextEmbed]_vars

(***************************************************************************)
(* SpecParse: parse_github_url (enrich.py) applied to one URL              *)
(***************************************************************************)
PatRawGitHub ==
    <<"r","a","w",".","g","i","t","h","u","b","u","s","e","r","c","o","n","t","e","n","t",
      ".","c","o","m">>

\* groups 1 and 2 of r'raw\.githubusercontent\.com/([^/]+)/([^/]+)' matched at
\* position i, joined by "/"; NoText if no match there
RawMatchAt(url, i) ==
    LET n  == Len(PatRawGitHub)
        o  == i + n + 1
        oe == RunEnd(url, o, {"/"})
        ne == RunEnd(url, oe + 1, {"/"})
    IN  IF /\ i + n <= Len(url)
           /\ SubSeq(url, i, i + n - 1) = PatRawGitHub
           /\ url[i + n] = "/"
           /\ oe > o
           /\ oe <= Len(url)
           /\ ne > oe + 1
        THEN SubSeq(url, o, ne - 1)
        ELSE NoText

\* str.rstrip(chars): trailing characters that are in chars are removed
RECURSIVE rstrip(_, _)
rstrip(s, chars) ==
    IF s # <<>> /\ s[Len(s)] \in chars THEN rstrip(SubSeq(s, 1, Len(s) - 1), chars) ELSE s

\* the characters of the argument '.git' of rstrip
DotGit == {".", "g", "i", "t"}

\* (match.group(1), match.group(2).rstrip('.git')) of a match "owner/name"
OwnerAndRepo(m) == <<SubSeq(m, 1, RunEnd(m, 1, {"/"}) - 1), rstrip(SubSeq(m, RunEnd(m, 1, {"/"}) + 1, Len(m)), DotGit)>>

\* re.search: the leftmost position where the pattern matches
FirstMatch(url, MatchAtPos(_, _)) ==
    LET hits == {i \in 1..Len(url) : MatchAtPos(url, i) # NoText}
    IN  IF hits = {} THEN NoText
        ELSE MatchAtPos(url, CHOOSE i \in hits : \A j \in hits : i <= j)

\* parse_github_url(url): Some(<<owner, repo>>), or Null for None
parse_github_url(url) ==
    IF url = NoText THEN Null
    ELSE IF FirstMatch(url, OwnRepoMatchAt) # NoText
         THEN Some(OwnerAndRepo(FirstMatch(url, OwnRepoMatchAt)))
    ELSE IF FirstMatch(url, RawMatchAt) # NoText
         THEN Some(OwnerAndRepo(FirstMatch(url, RawMatchAt)))
    ELSE Null

ParseOwners == {<<"o">>, <<"m","c","p">>}
RepoChars == {"a", "g", "i", "t"}

\* the repository names of up to MaxRepoLen characters
ParseRepos == UNION {[1..n -> RepoChars] : n \in 1..MaxRepoLen}

Slash(owner, repo) == owner \o <<"/">> \o repo

\* repository_url values: the plain form, with .git, with a path below the
\* repository, the ssh form, a raw-content URL, another host, none
ParseUrls ==
    UNION {{GitHubUrl(Slash(o, r)),
            GitHubUrl(Slash(o, r)) \o <<".","g","i","t">>,
            GitHubUrl(Slash(o, r)) \o <<"/","t","r","e","e">>,
            <<"g","i","t","@">> \o PatGitHubCom \o <<":">> \o Slash(o, r),
            <<"h","t","t","p","s",":","/","/">> \o PatRawGitHub \o <<"/">> \o Slash(o, r)
               \o <<"/","m","a","i","n">>,
            <<"h","t","t","p","s",":","/","/","x",".","i","o","/">> \o Slash(o, r)} :
               o \in ParseOwners, r \in ParseRepos}
    \cup {NoText}

InitParse ==
    /\ InitGatewayStore
    /\ InitNoConnections
    /\ InitNoStatusLog
    /\ InitNoEmbeddings
    /\ p_url \in ParseUrls
    /\ p_done = FALSE
    /\ p_result = Null
    /\ InitNoRequests
    /\ InitNoPool
    /\ InitNoCosts

\* parsed = parse_github_url(repo_url)
ParseUrl ==
    /\ ~p_done
    /\ p_result' = parse_github_url(p_url)
    /\ p_done' = TRUE
    /\ UNCHANGED p_url
    /\ UNCHANGED <<workerVars, scoreVars, retrVars>>
    /\ UNCHANGED <<connVars, callVars, listVars, extrVars, resVars, status_log, embedVars, dbVars, poolVars, costVars>>
    /\ UNCHANGED <<runVars, fetchVars, obsVars>>

NextParse == ParseUrl

SpecParse == InitParse /\ [][NextParse]_vars

(***************************************************************************)
(* SpecConnections: the sqlite connections that /search and /call requests *)
(* open (server.py, retriever.py, relevance.py).  A connection is closed   *)
(* by conn.close(); one that a function leaves open when it returns or     *)
(* raises stays open until the interpreter finalizes the object            *)
(***************************************************************************)
\* The functions run one at a time: the handlers do not await inside them
DbFrame ==
    /\ UNCHANGED <<workerVars, scoreVars, retrVars>>
    /\ UNCHANGED <<connVars, callVars, listVars, extrVars, resVars, status_log, embedVars,
                   parseVars, poolVars, costVars>>
    /\ UNCHANGED <<runVars, fetchVars, obsVars>>

\* GET /search arrives: search_tools calls retriever.retrieve
SearchArrives ==
    /\ gpc = "idle"
    /\ g_served < MaxRequests
    /\ g_request' = <<"search">>
    /\ gpc' = "hybrid_search"
    /\ UNCHANGED <<g_status, g_served, db_connections, db_unreferenced>>
    /\ DbFrame

\* RelevanceEngine.hybrid_search: get_connection, the query, return results;
\* the function has no conn.close(), whether the query raises or not
HybridSearchConnection ==
    /\ gpc = "hybrid_search"
    /\ db_connections' = db_connections + 1
    /\ db_unreferenced' = db_unreferenced + 1
    /\ \E raised \in BOOLEAN, paged_candidates \in {0, 1} :
          IF raised
          THEN gpc' = "respond" /\ g_status' = 500
          ELSE IF paged_candidates = 0
          THEN gpc' = "respond" /\ g_status' = 200
          ELSE gpc' = "hydrate" /\ g_status' = g_status
    /\ UNCHANGED <<g_request, g_served>>
    /\ DbFrame

\* Retriever.retrieve from get_connection on: conn.close() after the rows are
\* read, none when the query raises
HydrationConnection ==
    /\ gpc = "hydrate"
    /\ \E raised \in BOOLEAN :
          IF raised
          THEN /\ db_connections' = db_connections + 1
               /\ db_unreferenced' = db_unreferenced + 1
               /\ g_status' = 500
          ELSE /\ UNCHANGED <<db_connections, db_unreferenced>>
               /\ g_status' = 200
    /\ gpc' = "respond"
    /\ UNCHANGED <<g_request, g_served>>
    /\ DbFrame

\* POST /call arrives: call_tool calls get_server_connection_info
CallArrives ==
    /\ gpc = "idle"
    /\ g_served < MaxRequests
    /\ \E name \in RequestNames : g_request' = <<"call", name>>
    /\ gpc' = "lookup"
    /\ UNCHANGED <<g_status, g_served, db_connections, db_unreferenced>>
    /\ DbFrame

\* get_server_connection_info: get_connection, up to three queries, and
\* conn.close() only before `return None`
ConnectionClosedAfterLookup(info) == info = Null

LookupConnection ==
    /\ gpc = "lookup"
    /\ \E raised \in BOOLEAN :
          LET info == get_server_connection_info(g_request[2])
          IN  /\ IF ~raised /\ ConnectionClosedAfterLookup(info)
                 THEN UNCHANGED <<db_connections, db_unreferenced>>
                 ELSE /\ db_connections' = db_connections + 1
                      /\ db_unreferenced' = db_unreferenced + 1
              /\ g_status' = IF raised THEN 500 ELSE IF info = Null THEN 404 ELSE 200
    /\ gpc' = "respond"
    /\ UNCHANGED <<g_request, g_served>>
    /\ DbFrame

\* The response is returned
ReturnResponse ==
    /\ gpc = "respond"
    /\ gpc' = "idle"
    /\ g_served' = g_served + 1
    /\ UNCHANGED <<g_request, g_status, db_connections, db_unreferenced>>
    /\ DbFrame

\* The interpreter finalizes a connection object that nothing refers to, which
\* closes it: when its last reference goes under reference counting, at a
\* collection otherwise
FinalizeConnection ==
    /\ db_unreferenced > 0
    /\ db_connections' = db_connections - 1
    /\ db_unreferenced' = db_unreferenced - 1
    /\ UNCHANGED <<gpc, g_request, g_status, g_served>>
    /\ DbFrame

InitConnections ==
    /\ InitGatewayStore
    /\ \E remote \in {Null, Some([headers |-> Null])} :
          server_remotes = [s \in ServerSet |-> IF s = 1 THEN remote ELSE Null]
    /\ \E pkgs \in {<<>>, <<"sse">>, <<"sse", "stdio">>} :
          server_packages = [s \in ServerSet |-> IF s = 1 THEN pkgs ELSE <<>>]
    /\ \E local \in {Null, Some([env |-> Dict(<<>>)])} :
          server_local_sources = [s \in ServerSet |-> IF s = 1 THEN local ELSE Null]
    /\ os_environ = <<>>
    /\ tools_table = <<>>
    /\ tool_extraction_status = <<>>
    /\ res_in = <<>>
    /\ res_out = <<>>
    /\ InitGateway
    /\ InitExtractor
    /\ InitNoStatusLog
    /\ InitNoEmbeddings
    /\ InitNoParse
    /\ InitNoRequests
    /\ InitNoPool
    /\ InitNoCosts

NextConnections ==
    \/ SearchArrives
    \/ HybridSearchConnection
    \/ HydrationConnection
    \/ CallArrives
    \/ LookupConnection
    \/ ReturnResponse
    \/ FinalizeConnection

SpecConnections == InitConnections /\ [][NextConnections]_vars

(***************************************************************************)
(* SpecPool: stage 1 of compute_backlink_scores (enrich.py) with its       *)
(* thread pool: the coordinating thread submits one fetch_meta per missing *)
(* repo and stores each result as its future completes                     *)
(***************************************************************************)
\* ThreadPoolExecutor(max_workers=10)
max_workers == 10

\* The i-th of missing_repos: full names as GitHub code search returns them
RepoLetters == <<"a","b","c","d","e","f","g","h","i","j","k","l","m","n","p","q">>
MissingRepo(i) == <<"o", "/", RepoLetters[i]>>

\* the thread that runs the body of `for future in as_completed(...)`
CoordinatingThread == "main"

Running == {i \in DOMAIN pool_state : pool_state[i] = "running"}

\* a pool thread is free to take a work item
PoolHasIdleThread_Unbounded(running) == TRUE
PoolHasIdleThread(running) == Cardinality(running) < max_workers
Queued == {i \in DOMAIN pool_state : pool_state[i] = "queued"}

PoolFrame ==
    /\ UNCHANGED <<workerVars, retrVars>>
    /\ UNCHANGED <<config_references, dependency_signals, github_signals, package_downloads,
                   secret_env_vars, backlink_scores, market_rankings, spc, prefetched,
                   server_raw_results>>
    /\ UNCHANGED <<connVars, callVars, listVars, extrVars, resVars, status_log, embedVars,
                   parseVars, dbVars, costVars>>
    /\ UNCHANGED <<runVars, fetchVars, obsVars>>

\* executor.submit(fetch_meta, repo) for the next repo of missing_repos
Submit ==
    /\ ppc = "submit"
    /\ \E i \in DOMAIN pool_state :
          /\ pool_state[i] = "unsubmitted"
          /\ \A j \in 1..(i - 1) : pool_state[j] # "unsubmitted"
          /\ pool_state' = [pool_state EXCEPT ![i] = "queued"]
          /\ ppc' = IF i = Len(pool_state) THEN "as_completed" ELSE "submit"
    /\ UNCHANGED <<pool_missing, pool_fetches, pool_writes, backlink_edges>>
    /\ PoolFrame

\* A pool thread takes the oldest queued work item and calls fetch_meta:
\* fetch_repo_metadata for a name of two parts
StartFetch ==
    /\ PoolHasIdleThread(Running)
    /\ \E i \in Queued :
          /\ \A j \in Queued : i <= j
          /\ pool_state' = [pool_state EXCEPT ![i] = "running"]
          /\ pool_fetches' = [pool_fetches EXCEPT ![i] = IF TwoParts(MissingRepo(i)) THEN @ + 1 ELSE @]
    /\ UNCHANGED <<ppc, pool_missing, pool_writes, backlink_edges>>
    /\ PoolFrame

\* fetch_meta returns in some pool thread: the future is done
FinishFetch ==
    /\ \E i \in Running : pool_state' = [pool_state EXCEPT ![i] = "done"]
    /\ UNCHANGED <<ppc, pool_missing, pool_fetches, pool_writes, backlink_edges>>
    /\ PoolFrame

\* One turn of `for future in as_completed(future_to_repo)`: future.result()
\* and, `if meta`, the INSERT OR IGNORE and the UPDATE
StoreCompleted ==
    /\ ppc = "as_completed"
    /\ \E i \in DOMAIN pool_state :
          /\ pool_state[i] = "done"
          /\ pool_state' = [pool_state EXCEPT ![i] = "stored"]
          /\ IF pool_missing[i]
             THEN /\ pool_writes' = pool_writes \cup
                                      {[repo |-> i, thread |-> CoordinatingThread]}
                  /\ backlink_edges' =
                        UpdateMissingMetadata(
                            InsertOrIgnore(backlink_edges,
                                           CacheRow(MissingRepo(i), Meta(1, IsoText(now), FALSE, FALSE))),
                            MissingRepo(i), Meta(1, IsoText(now), FALSE, FALSE))
             ELSE UNCHANGED <<pool_writes, backlink_edges>>
    /\ UNCHANGED <<ppc, pool_missing, pool_fetches>>
    /\ PoolFrame

\* Every future was yielded: the executor is shut down, conn.commit()
CommitMetadata ==
    /\ ppc = "as_completed"
    /\ \A i \in DOMAIN pool_state : pool_state[i] = "stored"
    /\ ppc' = "stage2"
    /\ UNCHANGED <<pool_missing, pool_state, pool_fetches, pool_writes, backlink_edges>>
    /\ PoolFrame

\* which of the missing repos GitHub answers with 200: any of them for up to
\* two repos, every other one for more
PoolAnswers(n) ==
    IF n <= 2 THEN [1..n -> BOOLEAN] ELSE {[i \in 1..n |-> i % 2 = 1]}

InitPool ==
    /\ InitScoreData(<<{<<>>}, {<<>>}>>, {<<>>},
                     <<{NoSignals}, {NoSignals}>>, <<{0}, {0}>>, <<{0}, {0}>>)
    /\ InitScorer
    /\ InitNoConnections
    /\ InitNoStatusLog
    /\ InitNoEmbeddings
    /\ InitNoParse
    /\ InitNoRequests
    /\ \E n \in {1, 2, MaxMissing} :
          /\ pool_missing \in PoolAnswers(n)
          /\ pool_state = [i \in 1..n |-> "unsubmitted"]
          /\ pool_fetches = [i \in 1..n |-> 0]
    /\ pool_writes = {}
    /\ ppc = "submit"
    /\ InitNoCosts

NextPool ==
    \/ Submit
    \/ StartFetch
    \/ FinishFetch
    \/ StoreCompleted
    \/ CommitMetadata

SpecPool == InitPool /\ [][NextPool]_vars

(***************************************************************************)
(* SpecCosts: the loop body of analyze_service_costs (enrich.py) applied   *)
(* to one server                                                           *)
(***************************************************************************)
Service(key, name, free_available) == [key |-> key, name |-> name, free_available |-> free_available]

\* KNOWN_PAID_SERVICES, in the order of the dict: key, service name, free tier
KNOWN_PAID_SERVICES ==
    <<
      Service(<<"o","p","e","n","a","i">>, <<"O","p","e","n","A","I">>, FALSE),
      Service(<<"a","n","t","h","r","o","p","i","c">>, <<"A","n","t","h","r","o","p","i","c"," ","C","l","a","u","d","e">>, FALSE),
      Service(<<"c","o","h","e","r","e">>, <<"C","o","h","e","r","e">>, TRUE),
      Service(<<"r","e","p","l","i","c","a","t","e">>, <<"R","e","p","l","i","c","a","t","e">>, TRUE),
      Service(<<"h","u","g","g","i","n","g","f","a","c","e">>, <<"H","u","g","g","i","n","g"," ","F","a","c","e">>, TRUE),
      Service(<<"p","i","n","e","c","o","n","e">>, <<"P","i","n","e","c","o","n","e">>, TRUE),
      Service(<<"w","e","a","v","i","a","t","e">>, <<"W","e","a","v","i","a","t","e"," ","C","l","o","u","d">>, TRUE),
      Service(<<"s","u","p","a","b","a","s","e">>, <<"S","u","p","a","b","a","s","e">>, TRUE),
      Service(<<"f","i","r","e","b","a","s","e">>, <<"F","i","r","e","b","a","s","e">>, TRUE),
      Service(<<"s","t","r","i","p","e">>, <<"S","t","r","i","p","e">>, FALSE),
      Service(<<"t","w","i","l","i","o">>, <<"T","w","i","l","i","o">>, TRUE),
      Service(<<"s","e","n","d","g","r","i","d">>, <<"S","e","n","d","G","r","i","d">>, TRUE),
      Service(<<"a","w","s">>, <<"A","W","S">>, TRUE),
      Service(<<"g","c","p">>, <<"G","o","o","g","l","e"," ","C","l","o","u","d">>, TRUE),
      Service(<<"a","z","u","r","e">>, <<"A","z","u","r","e">>, TRUE),
      Service(<<"n","o","t","i","o","n">>, <<"N","o","t","i","o","n">>, TRUE),
      Service(<<"s","l","a","c","k">>, <<"S","l","a","c","k">>, TRUE),
      Service(<<"d","i","s","c","o","r","d">>, <<"D","i","s","c","o","r","d">>, TRUE),
      Service(<<"g","i","t","h","u","b">>, <<"G","i","t","H","u","b">>, TRUE),
      Service(<<"g","i","t","l","a","b">>, <<"G","i","t","L","a","b">>, TRUE),
      Service(<<"j","i","r","a">>, <<"J","i","r","a">>, TRUE),
      Service(<<"l","i","n","e","a","r">>, <<"L","i","n","e","a","r">>, TRUE),
      Service(<<"a","i","r","t","a","b","l","e">>, <<"A","i","r","t","a","b","l","e">>, TRUE),
      Service(<<"f","i","g","m","a">>, <<"F","i","g","m","a">>, TRUE),
      Service(<<"s","p","o","t","i","f","y">>, <<"S","p","o","t","i","f","y">>, TRUE),
      Service(<<"t","w","i","t","t","e","r">>, <<"T","w","i","t","t","e","r","/","X">>, TRUE),
      Service(<<"g","o","o","g","l","e">>, <<"G","o","o","g","l","e"," ","A","P","I","s">>, TRUE),
      Service(<<"b","r","a","v","e">>, <<"B","r","a","v","e"," ","S","e","a","r","c","h">>, TRUE),
      Service(<<"p","e","r","p","l","e","x","i","t","y">>, <<"P","e","r","p","l","e","x","i","t","y">>, FALSE),
      Service(<<"e","x","a">>, <<"E","x","a">>, TRUE),
      Service(<<"s","e","r","p","a","p","i">>, <<"S","e","r","p","A","P","I">>, TRUE),
      Service(<<"w","o","l","f","r","a","m">>, <<"W","o","l","f","r","a","m"," ","A","l","p","h","a">>, TRUE)
    >>

\* paid_services: the names of the services whose key is in vars_lower
MatchedServices(secret_vars) ==
    SelectSeq(KNOWN_PAID_SERVICES, LAMBDA svc : Contains(svc.key, Lower(secret_vars)))

\* has_free_tier: no matched service has free_available False
HasFreeTier(secret_vars) ==
    \A i \in DOMAIN MatchedServices(secret_vars) : MatchedServices(secret_vars)[i].free_available

\* KNOWN_PAID_SERVICES.get(s.lower(), (None, True, None))[1] for a service name s
FreeByName(name) ==
    IF \E i \in DOMAIN KNOWN_PAID_SERVICES : KNOWN_PAID_SERVICES[i].key = Lower(name)
    THEN (CHOOSE svc \in Range(KNOWN_PAID_SERVICES) : svc.key = Lower(name)).free_available
    ELSE TRUE

\* requires_paid = len(paid_services) > 0 and not all(... for s in paid_services)
RequiresPaid(secret_vars) ==
    /\ MatchedServices(secret_vars) # <<>>
    /\ ~(\A i \in DOMAIN MatchedServices(secret_vars) :
            FreeByName(MatchedServices(secret_vars)[i].name))

\* the row of the INSERT OR REPLACE INTO service_cost_hints; Null when
\* `if paid_services or secret_vars` fails
CostRow(secret_vars) ==
    LET paid == MatchedServices(secret_vars)
    IN  IF paid = <<>> /\ secret_vars = NoText THEN Null
        ELSE Some([requires_paid_service |-> RequiresPaid(secret_vars),
                   paid_services |-> IF paid # <<>>
                                     THEN Some([i \in DOMAIN paid |-> paid[i].name]) ELSE Null,
                   free_tier_available |-> IF paid # <<>>
                                           THEN Some(HasFreeTier(secret_vars)) ELSE Null,
                   notes |-> IF secret_vars # NoText /\ paid = <<>>
                             THEN Some(secret_vars) ELSE Null])

Upper(s) == [i \in 1..Len(s) |-> IF \E k \in DOMAIN LowerCase : LowerCase[k] = s[i]
                                  THEN UpperCase[CHOOSE k \in DOMAIN LowerCase : LowerCase[k] = s[i]]
                                  ELSE s[i]]

\* names of secret variables: one per known service, and one that names none
SecretVarNames ==
    {Upper(KNOWN_PAID_SERVICES[i].key) \o <<"_","K","E","Y">> : i \in DOMAIN KNOWN_PAID_SERVICES}
    \cup {<<"T","O","K","E","N">>}

\* GROUP_CONCAT(ev.var_name) over up to MaxSecrets variables
SecretVarLists ==
    {NoText} \cup SecretVarNames
    \cup (IF MaxSecrets >= 2
          THEN {p[1] \o <<",">> \o p[2] :
                   p \in {q \in SecretVarNames \X SecretVarNames : q[1] # q[2]}}
          ELSE {})

InitCosts ==
    /\ InitGatewayStore
    /\ InitNoConnections
    /\ InitNoStatusLog
    /\ InitNoEmbeddings
    /\ InitNoParse
    /\ InitNoRequests
    /\ InitNoPool
    /\ c_secret_vars \in SecretVarLists
    /\ c_done = FALSE
    /\ c_row = Null

\* One turn of `for server in servers`
AnalyzeServer ==
    /\ ~c_done
    /\ c_row' = CostRow(c_secret_vars)
    /\ c_done' = TRUE
    /\ UNCHANGED c_secret_vars
    /\ UNCHANGED <<workerVars, scoreVars, retrVars>>
    /\ UNCHANGED <<connVars, callVars, listVars, extrVars, resVars, status_log, embedVars,
                   parseVars, dbVars, poolVars>>
    /\ UNCHANGED <<runVars, fetchVars, obsVars>>

NextCosts == AnalyzeServer

SpecCosts == InitCosts /\ [][NextCosts]_vars

(***************************************************************************)
(* Properties                                                              *)
(***************************************************************************)
LastOf(seq) == seq[Len(seq)]
IsStatus(o, codes) == o.kind = "response" /\ o.status_code \in codes
InRun == pc \in {"loop", "fetch", "polite", "done"}
PermanentAtStart(s) == statusAtStart[s].status = "permanent_failure"

\* The row is missing, or was written more than n days before t
MissingOrOlder(row, t, n) == row = NoData \/ Earlier(row.enriched_at, DaysAgo(t, n))

\* Every sleep of the current fetcher call lasted base_delay * 2^attempt
BackoffSleeps == \A j \in 1..Len(sleepLog) : sleepLog[j] = base_delay * (2 ^ (j - 1))

\* The fetcher did not return on its i-th request
WentOnAfter(i) == ~(fpc = "returned" /\ i = Len(reqLog))

\* C1: when a run of the npm or PyPI worker without --query and --limit has
\* ended, every server whose package_downloads row was missing or older than
\* 1 day at the start, and which was not a permanent failure, has been
\* fetched, and if the fetch succeeded its row holds the new counts.
C1_StalePackagesAreFetched ==
    (pc = "done" /\ worker \in {"npm", "pypi"} /\ limit = 0 /\ query = NoText) =>
        \A s \in ServerSet :
            (MissingOrOlder(dataAtStart[s], now, 1) /\ ~PermanentAtStart(s)) =>
                /\ s \in fetched
                /\ outcome[s] = "ok" => data_rows[s].enriched_at = now

\* C2: when a run has ended, every candidate the worker processed has an
\* enrichment_status row: success if its fetch succeeded, otherwise a
\* permanent or transient failure with a failure_reason.
C2_StatusRowForEveryProcessedCandidate ==
    pc = "done" =>
        \A s \in ServerSet :
            /\ outcome[s] = "ok" => enrichment_status[s].status = "success"
            /\ outcome[s] = "failed" =>
                  /\ enrichment_status[s].status \in {"permanent_failure", "transient_failure"}
                  /\ enrichment_status[s].failure_reason # "NULL"

\* C3: once the worker has handled a candidate whose source answered 404, the
\* candidate's enrichment_status row says permanent_failure, reason not_found.
C3_NotFoundIsRecordedPermanent ==
    (pc = "polite" /\ phase # "day" /\ Len(reqLog) > 0 /\ IsStatus(LastOf(reqLog), {404})) =>
        /\ enrichment_status[servers[idx]].status = "permanent_failure"
        /\ enrichment_status[servers[idx]].failure_reason = "not_found"

C5_TwoRateLimitsThenSuccess ==
    (worker = "github" /\ pc = "polite" /\ reqLog = <<Resp(429), Resp(429), Resp(200)>>) =>
        /\ sleepLog = <<base_delay * 1, base_delay * 2>>
        /\ data_rows[servers[idx]].enriched_at = now
        /\ enrichment_status[servers[idx]].status = "success"
        /\ enrichment_status[servers[idx]].retry_count = 0

\* C6: the fetcher goes on (sleeps base_delay * 2^attempt, then retries) after
\* every 429 and every 5xx it receives while retries remain, never issues more
\* than max_retries + 1 requests, and after the last retry returns the last
\* response.
C6_RetriesRateLimitAndEveryServerError ==
    /\ \A i \in 1..Len(reqLog) :
          ( /\ reqLog[i].kind = "response"
            /\ (reqLog[i].status_code = 429 \/ reqLog[i].status_code \in 500..599)
            /\ i <= max_retries ) => WentOnAfter(i)
    /\ BackoffSleeps
    /\ Len(reqLog) <= max_retries + 1
    /\ ( /\ fpc = "returned"
         /\ Len(reqLog) = max_retries + 1
         /\ IsStatus(LastOf(reqLog), {429} \cup (500..599)) ) => response = LastOf(reqLog)

\* C7: a 200 or a 404 is the last response of its call: the fetcher has
\* returned it, with no request after it and no sleep after it, on whichever
\* attempt it arrived.
C7_ReturnsAtOnceOn200And404 ==
    \A i \in 1..Len(reqLog) :
        IsStatus(reqLog[i], {200, 404}) =>
            /\ i = Len(reqLog)
            /\ fpc = "returned"
            /\ response = reqLog[i]
            /\ Len(sleepLog) = i - 1

\* A 404 that arrived on the third attempt and was returned
C7_Witness404OnThirdAttempt ==
    /\ fpc = "returned"
    /\ Len(reqLog) = 3
    /\ response = Resp(404)
    /\ Len(sleepLog) = 2

\* C8: after a timeout with retries left the fetcher goes on, sleeping
\* base_delay * 2^attempt; when all max_retries + 1 requests timed out it
\* returns None, and the worker then has a transient failure on the
\* candidate's status row.
C8_TimeoutsRetriedThenTransientFailure ==
    LET allTimedOut == /\ Len(reqLog) = max_retries + 1
                       /\ \A i \in 1..Len(reqLog) : reqLog[i] = TimeoutExc
    IN  /\ \A i \in 1..Len(reqLog) :
              (reqLog[i] = TimeoutExc /\ i <= max_retries) => WentOnAfter(i)
        /\ BackoffSleeps
        /\ (fpc = "returned" /\ allTimedOut) => response = None
        /\ (pc = "polite" /\ allTimedOut) =>
              enrichment_status[servers[idx]].status = "transient_failure"

\* Servers whose rows differ from what is committed
Uncommitted ==
    {s \in ServerSet : \/ data_rows[s] # committed.data_rows[s]
                       \/ enrichment_status[s] # committed.enrichment_status[s]}

\* C9: at no point of a run are more than 10 processed items uncommitted.
C9_AtMostTenItemsUncommitted == Cardinality(Uncommitted) <= CommitEvery

\* C10: a Ctrl-C that ends a run commits the current transaction and closes
\* the database.
C10_InterruptCommitsAndCloses ==
    [][ (pc \in {"loop", "fetch", "polite"} /\ exit_kind' \in {"killed", "exit0"}) =>
            /\ committed' = [enrichment_status |-> enrichment_status, data_rows |-> data_rows]
            /\ ~conn_open' ]_vars

\* C11 as stated: whenever a rate-limited code search waits, the wait is
\* (reset-at - now + 5) seconds capped at 120, and never more than 120
\* seconds, whatever the header and the retry number.
C11_WaitIsResetPlusFiveAtMost120 ==
    pc = "search_wait" =>
        /\ wait_secs <= 120
        /\ reset_time.kind = "int" => wait_secs = Min(reset_time.value - Epoch(now) + 5, 120)

\* C11, amended: with an integer reset-at header the wait is
\* (reset-at - now + 5) seconds kept within 30..120; with a missing or
\* unparsable header it is 60, 120, 240 seconds on retry number 0, 1, 2.
C11_WaitClampedOrFallback ==
    pc = "search_wait" =>
        LET d == reset_time.value - Epoch(now) + 5 IN
        /\ retry_count \in 0..2
        /\ reset_time.kind = "int" =>
              /\ d < 30 => wait_secs = 30
              /\ d \in 30..120 => wait_secs = d
              /\ d > 120 => wait_secs = 120
        /\ reset_time.kind # "int" =>
              wait_secs = (CASE retry_count = 0 -> 60 [] retry_count = 1 -> 120 [] OTHER -> 240)

\* The third rate limit of one search, without a reset-at header: 240 seconds
C11_WitnessThirdRetryWaits240 ==
    /\ pc = "search_wait"
    /\ retry_count = 2
    /\ reset_time = NoHeader
    /\ wait_secs = 240

\* Repos of stage 1 whose metadata fetch succeeded
FetchedOk == {r \in DOMAIN prefetched : prefetched[r].ok}

\* C12: after stage 1 every repo that had no metadata row and whose fetch
\* succeeded has a ("__cache__", repo, "metadata_cache") row with the
\* fetched stars, pushed_at, is_archived and is_fork, and the edges stage 2
\* builds for that repo carry the fetched values, not the fallback.
C12_FetchedMetadataIsCachedAndScored ==
    /\ spc \in {"stage2", "stage3"} =>
          \A r \in FetchedOk :
              \E e \in backlink_edges :
                  /\ e.server_name = CacheServerName
                  /\ e.referencer_repo = r
                  /\ e.tier = "metadata_cache"
                  /\ e.repo_stars = Some(prefetched[r].stars)
                  /\ e.repo_pushed_at = prefetched[r].pushed_at
                  /\ e.is_archived = prefetched[r].is_archived
                  /\ e.is_fork = prefetched[r].is_fork
    /\ spc = "stage3" =>
          \A s \in DOMAIN server_raw_results :
              \A i \in 1..Len(server_raw_results[s].edges_to_store) :
                  LET e == server_raw_results[s].edges_to_store[i]
                  IN  e.referencer_repo \in FetchedOk =>
                          /\ e.repo_stars = Some(prefetched[e.referencer_repo].stars)
                          /\ e.repo_pushed_at = prefetched[e.referencer_repo].pushed_at

\* Edges a server has in backlink_edges
EdgesOf(s) == {e \in backlink_edges : e.server_name = Name(s)}

\* The server's own repository: the path of its repository_url
OwnRepository(s) == SubSeq(repository_url(s), Len(GitHubUrl(<<>>)) + 1, Len(repository_url(s)))

\* C13: a sample repo equal to the server's own repository, ignoring case,
\* yields no edge; a repo listed in several config_references rows of one
\* tier yields one edge; a server whose samples are its own repo and
\* other/repo ends with exactly one tier1 edge and unique_repos = 1.
C13_SelfReferenceDroppedOneEdgePerRepo ==
    \A s \in ServerSet :
        /\ \A e \in EdgesOf(s) : Lower(e.referencer_repo) # Lower(OwnRepository(s))
        /\ \A e, f \in EdgesOf(s) :
              (Lower(e.referencer_repo) = Lower(f.referencer_repo) /\ e.tier = f.tier) => e = f
        /\ (/\ s \in DOMAIN backlink_scores
            /\ config_references[s] = <<ConfigRow("claude_desktop", <<RepoOwnerX, RepoOther>>)>>
            /\ Lower(OwnRepository(s)) = RepoOwnerX) =>
              /\ Cardinality(EdgesOf(s)) = 1
              /\ \A e \in EdgesOf(s) : e.tier = "tier1_config"
              /\ backlink_scores[s].unique_repos = 1

\* C14: every stored normalized_score and every stored total_score lies in
\* [0, 1], and a server with raw_score = 0 has normalized_score = 0.
C14_ScoresWithinUnitInterval ==
    /\ \A s \in DOMAIN backlink_scores :
          /\ backlink_scores[s].normalized_score \in 0..One
          /\ backlink_scores[s].raw_score = 0 => backlink_scores[s].normalized_score = 0
    /\ \A s \in DOMAIN market_rankings : market_rankings[s].total_score \in 0..One

\* Both have run: a server without backlinks scored 0, one with backlinks, and
\* a verified zero-auth server whose composite was cut down to 1
C14_WitnessClampedTotalAndZeroScore ==
    /\ \E s \in DOMAIN backlink_scores :
          backlink_scores[s].raw_score = 0 /\ backlink_scores[s].normalized_score = 0
    /\ \E s \in DOMAIN backlink_scores : backlink_scores[s].raw_score > 0
    /\ \E s \in DOMAIN market_rankings :
          /\ market_rankings[s].total_score = One
          /\ market_rankings[s].usage_score = One
          /\ market_rankings[s].is_zero_auth
          /\ market_rankings[s].is_verified

\* C15: the scores one scorer run stores are monotone in the raw scores of
\* that run: raw_score(A) >= raw_score(B) gives
\* normalized_score(A) >= normalized_score(B).
C15_NormalisationIsMonotone ==
    [][ (spc = "stage3" /\ spc' = "idle") =>
            \A a, b \in DOMAIN server_raw_results :
                server_raw_results[a].raw_score >= server_raw_results[b].raw_score =>
                    backlink_scores'[a].normalized_score >= backlink_scores'[b].normalized_score
      ]_vars

\* Two servers scored with different positive raw scores
C15_WitnessTwoPositiveRawScores ==
    /\ spc = "idle"
    /\ \E a, b \in DOMAIN backlink_scores :
          /\ backlink_scores[a].raw_score > backlink_scores[b].raw_score
          /\ backlink_scores[b].raw_score > 0
          /\ backlink_scores[a].normalized_score > backlink_scores[b].normalized_score

\* C16: each of the four stored pillar scores lies in [0, 1], whatever the
\* stored last_push (even one later than now), stars, forks and downloads.
C16_PillarsWithinUnitInterval ==
    \A s \in DOMAIN market_rankings :
        /\ market_rankings[s].usage_score \in 0..One
        /\ market_rankings[s].reputation_score \in 0..One
        /\ market_rankings[s].activity_score \in 0..One
        /\ market_rankings[s].reach_score \in 0..One

\* C17 as stated: a server ranked with no backlinks (usage_score 0) and no
\* downloads (reach_score 0) has total_score in [0, 0.15].
C17_NoUsageNoReachAtMostBonuses ==
    \A s \in DOMAIN market_rankings :
        (market_rankings[s].usage_score = 0 /\ market_rankings[s].reach_score = 0) =>
            market_rankings[s].total_score \in 0..150

\* C17, amended: such a server's total_score is
\* 0.30 * reputation_score + 0.15 * activity_score, plus 0.05 when zero-auth
\* and 0.10 when verified, kept within [0, 1].
C17_NoUsageNoReachIsReputationActivityAndBonuses ==
    \A s \in DOMAIN market_rankings :
        LET r == market_rankings[s] IN
        (r.usage_score = 0 /\ r.reach_score = 0) =>
            r.total_score = Max(0, Min(One, Mul(300, r.reputation_score)
                                             + Mul(150, r.activity_score)
                                             + (IF r.is_zero_auth THEN 50 ELSE 0)
                                             + (IF r.is_verified THEN 100 ELSE 0)))

\* A server without backlinks, downloads and GitHub signals, zero-auth and
\* unverified: activity 0.5 gives 0.075, the bonus 0.05
C17_WitnessNoSignalsScores125 ==
    \E s \in DOMAIN market_rankings :
        /\ market_rankings[s].usage_score = 0
        /\ market_rankings[s].reach_score = 0
        /\ market_rankings[s].reputation_score = 0
        /\ market_rankings[s].activity_score = 500
        /\ market_rankings[s].is_zero_auth
        /\ ~market_rankings[s].is_verified
        /\ market_rankings[s].total_score = 125

\* The request has been answered 200
Answered200 == rpc = "responded" /\ http_response.status = 200

\* C18: total_candidates of an answer is the size of the union of the
\* vector hits and the keyword hits, before the relevance floor and before
\* paging; when no candidate has relevance above 0.3 the results are empty
\* and total_candidates is still that size.
C18_TotalCandidatesCountsUnfilteredUnion ==
    Answered200 =>
        /\ http_response.total_candidates = Cardinality(vector_hits \cup fts_hits)
        /\ (\A t \in vector_hits \cup fts_hits : Relevance(t) <= 300) =>
               http_response.results = <<>>

\* Tool 1 is A (s_score 0.8, no keyword hit), tool 2 is B (s_score 0.4,
\* k_raw = k_max > 0), of equal quality, both on the requested page
FusionExample ==
    /\ s_scores[1] = Some(800)
    /\ k_raws[1] = Null
    /\ s_scores[2] = Some(400)
    /\ k_raws[2] # Null
    /\ k_raws[2] = k_max
    /\ k_max[1] > 0
    /\ Quality(1) = Quality(2)
    /\ request.page = 1
    /\ request.limit >= 2

\* C19: every result carries relevance = 0.7 * s_score + 0.3 *
\* log1p(k_raw) / log1p(k_max), a missing side counting 0, and score =
\* 0.8 * relevance + 0.2 * quality; in the example A has relevance 0.56, B
\* has 0.58 and B comes before A.
C19_FusionWeightsAndOrder ==
    Answered200 =>
        /\ \A i \in DOMAIN http_response.results :
              LET r == http_response.results[i]
                  s == IF s_scores[r.tool_id] = Null THEN 0 ELSE s_scores[r.tool_id][1]
                  k == IF k_raws[r.tool_id] = Null THEN 0
                       ELSE (log1p(k_raws[r.tool_id][1]) * 1000) \div log1p(k_max[1])
              IN  /\ r.relevance = (700 * s) \div 1000 + (300 * k) \div 1000
                  /\ r.score = (800 * r.relevance) \div 1000 + (200 * r.quality) \div 1000
        /\ FusionExample =>
              \E i, j \in DOMAIN http_response.results :
                  /\ i < j
                  /\ http_response.results[i].tool_id = 2
                  /\ http_response.results[i].relevance = 580
                  /\ http_response.results[j].tool_id = 1
                  /\ http_response.results[j].relevance = 560

\* The example answered, B first
C19_WitnessBBeforeA ==
    /\ Answered200
    /\ FusionExample
    /\ Len(http_response.results) >= 2
    /\ http_response.results[1].tool_id = 2
    /\ http_response.results[2].tool_id = 1

\* C20: a query whose sanitised keyword form is empty is answered 200 with
\* the vector hits alone.
C20_EmptyKeywordQueryAnswersVectorHits ==
    (rpc = "responded" /\ fts_query(request.query) = <<>>) =>
        /\ http_response.status = 200
        /\ \A i \in DOMAIN http_response.results :
              /\ http_response.results[i].tool_id \in vector_hits
              /\ http_response.results[i].relevance
                    = (700 * s_scores[http_response.results[i].tool_id][1]) \div 1000

\* The tool ids of a sequence of candidates or results
ToolIds(rows) == {rows[i].tool_id : i \in DOMAIN rows}

\* The results are in non-increasing score order, all above the relevance bar
SortedAboveFloor(results) ==
    /\ \A i, j \in DOMAIN results : i < j => results[i].score >= results[j].score
    /\ \A i \in DOMAIN results : results[i].relevance > 300

\* Entries lo..hi of a list, as far as it goes
Positions(list, lo, hi) == {list[i].tool_id : i \in lo..Min(hi, Len(list))}

\* What Retriever.retrieve answers for another page of the same listing
OtherPage(p) ==
    LET paged == Paged(candidates, p, request.limit)
    IN  Hydrate(paged, ToolIds(paged))

\* C21 as stated: page p of a request holds exactly the entries at positions
\* [(p-1)*limit, p*limit) of the score-descending list of all tools that
\* passed the relevance floor, in non-increasing score order, each with
\* relevance > 0.3.
C21_PageIsSliceOfFloorPassingList ==
    Answered200 =>
        /\ \E o \in ScoreOrders(SelectedRows) :
              ToolIds(http_response.results)
                  = Positions(o, (request.page - 1) * request.limit + 1,
                              request.page * request.limit)
        /\ SortedAboveFloor(http_response.results)

\* C21 (amended): page p holds exactly the entries at positions
\* [(p-1)*limit, p*limit) of the first candidate_limit = 100 entries of the
\* score-descending list of the tools that passed the floor (later positions
\* are never served); results inside a page are in non-increasing score
\* order with relevance > 0.3, the pages of one listing are pairwise
\* disjoint, and every result of page p scores at least as high as every
\* result of page p+1.
C21_PageIsSliceOfFirstHundred ==
    Answered200 =>
        /\ \E o \in ScoreOrders(SelectedRows) :
              /\ candidates = Take(o, candidate_limit)
              /\ ToolIds(http_response.results)
                    = Positions(o, (request.page - 1) * request.limit + 1,
                                Min(request.page * request.limit, candidate_limit))
        /\ SortedAboveFloor(http_response.results)
        /\ \A p \in Pages \ {request.page} :
              ToolIds(OtherPage(p)) \cap ToolIds(http_response.results) = {}
        /\ LET next == OtherPage(request.page + 1)
           IN  \A i \in DOMAIN http_response.results, j \in DOMAIN next :
                   http_response.results[i].score >= next[j].score

\* Page 2 of ten results served from an index larger than candidate_limit
C21_WitnessSecondPageOfFullIndex ==
    /\ Answered200
    /\ Cardinality(SelectedTools) > candidate_limit
    /\ request.page = 2
    /\ request.limit = 10
    /\ Len(http_response.results) = 10

\* The variables a string refers to: the name after ENV:, or the names of its
\* ${..} placeholders
RECURSIVE NamesFrom(_, _)
NamesFrom(s, i) ==
    IF i > Len(s) THEN {}
    ELSE LET m == MatchAt(s, i)
         IN  IF m = Null THEN NamesFrom(s, i + 1)
             ELSE {m[1].var_name} \cup NamesFrom(s, m[1].end + 1)
ReferencedNames(s) ==
    IF StartsWith(s, EnvPrefix) THEN {SubSeq(s, 5, Len(s))} ELSE NamesFrom(s, 1)

\* C26: when every variable a string refers to is set, resolving the result
\* of resolve_env_vars again gives the same string, whatever the values.
C26_ResolutionIsIdempotent ==
    (Len(res_out) = 2 /\ ReferencedNames(res_in) \subseteq DOMAIN os_environ) =>
        res_out[2] = res_out[1]

\* The connection rows of the requested server
HasRemote == call_request \in DOMAIN server_remotes /\ server_remotes[call_request] # Null
HasStdioPackage ==
    /\ call_request \in DOMAIN server_packages
    /\ "stdio" \in Range(server_packages[call_request])
HasLocalSource ==
    /\ call_request \in DOMAIN server_local_sources
    /\ server_local_sources[call_request] # Null
MethodIs(m) == call_info # Null /\ call_info[1].method = m

\* C22: connection info is resolved in a fixed order, stopping at the first
\* match: a Remote row gives method remote whatever else exists; otherwise a
\* Package with transport_type = stdio gives stdio; otherwise a LocalSource
\* row gives local; with none of them the call is answered 404 and no
\* transport is opened.
C22_ConnectionInfoResolvedInOrder ==
    cpc # "idle" =>
        /\ HasRemote => MethodIs("remote")
        /\ (~HasRemote /\ HasStdioPackage) => MethodIs("stdio")
        /\ (~HasRemote /\ ~HasStdioPackage /\ HasLocalSource) => MethodIs("local")
        /\ (~HasRemote /\ ~HasStdioPackage /\ ~HasLocalSource) =>
              /\ call_info = Null
              /\ cpc = "responded"
              /\ call_response.status = 404
              /\ transport_args = <<>>
              /\ ~transport_open

\* A server with all three kinds of rows was called over its remote
C22_WitnessRemoteWinsOverStdioAndLocal ==
    /\ cpc = "responded"
    /\ HasRemote /\ HasStdioPackage /\ HasLocalSource
    /\ MethodIs("remote")
    /\ transport_args # <<>>
    /\ call_response.status = 200

Resolved(seg) ==
    IF seg.kind # "lit" /\ seg.name \in DOMAIN os_environ THEN os_environ[seg.name]
    ELSE Render(seg)
Expected(tpl) == Concat([i \in DOMAIN tpl |-> Resolved(tpl[i])])

\* Every value passed is the stored value with its placeholders resolved
PassedResolved(stored, passed) ==
    /\ Len(passed) = Len(stored)
    /\ \A i \in DOMAIN stored :
          /\ stored[i] = Num => passed[i] = Num
          /\ \A tpl \in ValueTemplates :
                stored[i] = Str(Stored(tpl)) => passed[i] = Str(Expected(tpl))

\* C25: when a server is invoked through its LocalSource row, every string
\* value of the stored env map has its placeholders resolved from the
\* process environment before the child process is started.
C25_LocalEnvPlaceholdersResolved ==
    (transport_args # <<>> /\ MethodIs("local")) =>
        PassedResolved(server_local_sources[call_request][1].env.items,
                       transport_args[1].items)

\* C27: the headers the gateway sends for a Remote row are the stored ones
\* with ${NAME} and ${input:NAME} replaced by the value of NAME when it is
\* set and kept literally when it is unset, a value ENV:NAME replaced by the
\* variable's value or kept, and everything else unchanged.
C27_RemoteHeaderPlaceholdersResolved ==
    (transport_args # <<>> /\ MethodIs("remote")
        /\ server_remotes[call_request][1].headers # Null) =>
        /\ transport_args[1] # Null
        /\ PassedResolved(server_remotes[call_request][1].headers[1].items,
                          transport_args[1][1].items)

\* A header "x ${A}" sent as "x t", and one "${A}${B}" sent as "t${B}"
C27_WitnessHeaderSentResolved ==
    /\ cpc = "responded"
    /\ call_response.status = 200
    /\ MethodIs("remote")
    /\ VarA \in DOMAIN os_environ
    /\ server_remotes[call_request][1].headers
          = Some(Dict(<<Str(<<"$", "{", "A", "}", "$", "{", "B", "}">>)>>))
    /\ transport_args = Some(Some(Dict(<<Str(<<"t", "$", "{", "B", "}">>)>>)))

\* The attempt that has just been recorded, under SpecExtract
Attempted == xpc = "loop" /\ x_idx > 1
AttemptedServer == x_servers[x_idx - 1].name
StatusRow(s) == tool_extraction_status[s][1]

StatusTimesOrdered ==
    \A s \in ServerSet :
        tool_extraction_status[s] # Null =>
            /\ StatusRow(s).last_successful_at # Null =>
                  StatusRow(s).last_successful_at[1] <= StatusRow(s).last_attempted_at
            /\ StatusRow(s).status = "success" =>
                  /\ StatusRow(s).tools_count >= 0
                  /\ StatusRow(s).last_successful_at # Null

FailedAttemptKeepsLastSuccess ==
    \A s \in ServerSet :
        /\ tool_extraction_status'[s] # tool_extraction_status[s]
        /\ tool_extraction_status'[s][1].status # "success"
        => tool_extraction_status'[s][1].last_successful_at =
              IF tool_extraction_status[s] = Null THEN Null
              ELSE StatusRow(s).last_successful_at

\* C28: a row with status success has tools_count >= 0 and last_successful_at
\* <= last_attempted_at; in every state a non-null last_successful_at is never
\* later than last_attempted_at; a failed attempt leaves last_successful_at as
\* it was.
C28_ExtractionStatusTimesOrdered ==
    []StatusTimesOrdered /\ [][FailedAttemptKeepsLastSuccess]_vars

\* A failed attempt has been recorded on a server that succeeded earlier
C28_WitnessFailureAfterSuccess ==
    /\ Attempted
    /\ x_error # NoText
    /\ StatusRow(AttemptedServer).status # "success"
    /\ StatusRow(AttemptedServer).last_successful_at # Null
    /\ StatusRow(AttemptedServer).last_successful_at[1] < StatusRow(AttemptedServer).last_attempted_at

\* C29: GET /servers/<name>/tools answers 404 for a name that is not in the
\* store, and for a stored server answers its name with the list of its tool
\* names.
C29_ListAnswers404OrToolNames ==
    list_response # NoListResponse =>
        IF list_response.server \in Range(servers_table)
        THEN /\ list_response.status = 200
             /\ list_response.tools = tools_table[list_response.server]
        ELSE list_response.status = 404

\* Python `"401" in m or "403" in m or "unauthorized" in m.lower() or ..`
AuthenticationError(m) ==
    \/ Contains(<<"4","0","1">>, m)
    \/ Contains(<<"4","0","3">>, m)
    \/ Contains(<<"u","n","a","u","t","h","o","r","i","z","e","d">>, Lower(m))
    \/ Contains(<<"f","o","r","b","i","d","d","e","n">>, Lower(m))

\* C30: an attempt that fails with an authentication error is recorded as
\* permanent_failure, and a run started without the clean flag does not visit
\* a server whose last recorded failure was an authentication error.
C30_AuthFailureIsPermanentAndSkipped ==
    /\ Attempted /\ AuthenticationError(x_error)
          => StatusRow(AttemptedServer).status = "permanent_failure"
    /\ xpc = "loop" /\ x_args.skip_extracted =>
          \A i \in x_idx..Len(x_servers) :
              LET s == x_servers[i].name
              IN  tool_extraction_status[s] # Null =>
                      StatusRow(s).failure_category # "auth_required"

\* The data row of s holds what it held when the run started, enriched_at aside
SameData(s) == data_rows[s].value = dataAtStart[s].value
\* The row was written less than the worker's window before the run started
InsideWindow(row) == Earlier(DaysAgo(now, Window(worker)), row.enriched_at)

RowsKeptByRerun(cols) ==
    InRun =>
        /\ \A s \in ServerSet :
              dataAtStart[s] # NoData =>
                  /\ SameData(s)
                  /\ "id" \in cols => data_rows[s].id = dataAtStart[s].id
        /\ \A s \in fetched : dataAtStart[s] # NoData => ~InsideWindow(dataAtStart[s])

C40_RowWrittenOnlyAfter200 ==
    (worker = "config_refs" /\ pc = "polite") =>
        /\ data_rows[servers[idx]][cfg].enriched_at = now => Is200(LastOf(reqLog))
        /\ ~Is200(LastOf(reqLog)) => data_rows[servers[idx]][cfg] = dataAtStart[servers[idx]][cfg]

\* Number of failures at the end of the log, after the last success
RECURSIVE TrailingFailures(_)
TrailingFailures(log) ==
    IF log = <<>> \/ LastOf(log) THEN 0
    ELSE 1 + TrailingFailures(SubSeq(log, 1, Len(log) - 1))

\* C33: after any sequence of updates of a pair its row exists (the table
\* holds one row per pair); after a success retry_count is 0 and
\* failure_reason NULL, and otherwise retry_count is the number of failures
\* since the last success, or since the row was created.
C33_RetryCountIsConsecutiveFailures ==
    \A s \in DOMAIN status_log :
        LET row == enrichment_status[s]
            log == status_log[s]
        IN  IF log = <<>> THEN row = NoRow
            ELSE /\ row # NoRow
                 /\ LastOf(log) => /\ row.status = "success"
                                   /\ row.retry_count = 0
                                   /\ row.failure_reason = "NULL"
                 /\ ~LastOf(log) => /\ row.status \in {"permanent_failure", "transient_failure"}
                                    /\ row.retry_count = TrailingFailures(log)

\* A pair has failed, succeeded and then failed twice
C33_WitnessTwoFailuresAfterSuccess ==
    \E s \in DOMAIN status_log :
        /\ status_log[s] = <<FALSE, TRUE, FALSE, FALSE>>
        /\ enrichment_status[s].retry_count = 2

\* the backlink_edges rows of a repo WHERE repo_stars IS NOT NULL
RowsWithStars(repo) ==
    {e \in backlink_edges : e.referencer_repo = repo /\ e.repo_stars # Null}

\* the edge was computed from the metadata columns of this row
ComputedFrom(edge, row) ==
    /\ edge.repo_stars = row.repo_stars
    /\ edge.repo_pushed_at = row.repo_pushed_at
    /\ edge.is_archived = row.is_archived
    /\ edge.is_fork = row.is_fork

\* the edge was computed from the fallback 0, None, False, False
ComputedFromFallback(edge) ==
    /\ edge.repo_stars = Some(0)
    /\ edge.repo_pushed_at = Null
    /\ ~edge.is_archived
    /\ ~edge.is_fork

LastRunCompleted ==
    /\ upc = "idle"
    /\ u_hist # <<>>
    /\ u_hist[Len(u_hist)].end = "completed"

VectorRows(tool_id) == {row \in committed_embeddings : row.tool_id = tool_id}

\* C32: through runs of update_embeddings that are interrupted or complete,
\* a committed vector row is never lost or changed, a batch encodes only
\* documents that have no committed vector row, and when a run has completed
\* every tools_search document has exactly one committed vector row
C32_EmbeddingsResumable ==
    /\ [](LastRunCompleted => \A d \in search_docs : Cardinality(VectorRows(d)) = 1)
    /\ [][/\ committed_embeddings \subseteq committed_embeddings'
          /\ \A d \in u_encoded' \ u_encoded : VectorRows(d) = {}]_vars

\* a run was interrupted after a committed batch, and the next run encoded
\* the remaining documents and completed
C32_WitnessRerunAfterInterruptedRun ==
    /\ LastRunCompleted
    /\ Len(u_hist) >= 2
    /\ u_hist[Len(u_hist) - 1].end = "interrupted"
    /\ u_hist[Len(u_hist) - 1].batches >= 1
    /\ u_encoded # {}
    /\ Cardinality(search_docs) >= 3

\* C35: for a URL https://github.com/<owner>/<repo> with owner and repo
\* non-empty and free of "/" and ".", parse_github_url returns exactly
\* (owner, repo), also when the repo name ends in g, i or t
C35_ParseReturnsOwnerAndRepo ==
    \A owner \in ParseOwners, repo \in ParseRepos :
        (p_done /\ p_url = GitHubUrl(Slash(owner, repo))) => p_result = Some(<<owner, repo>>)

\* the stored tier 1 edges of a server
StoredTier1Edges(table, s) ==
    {e \in table : e.server_name = Name(s) /\ e.tier = "tier1_config"}

RECURSIVE SumEdgeScores(_)
SumEdgeScores(edges) ==
    IF edges = {} THEN 0
    ELSE LET e == CHOOSE x \in edges : TRUE
         IN  e.edge_score[1] + SumEdgeScores(edges \ {e})

\* the sample repos of a server's config_references rows
SampleReposOf(s) == UNION {Range(row.sample_repos) : row \in Range(config_references[s])}

\* C36: when a scorer run has stored its results, for every server it scored
\* the stored tier1_contribution is the sum of edge_score over the server's
\* stored tier 1 backlink_edges rows, and every stored edge of the server is
\* to a repo among the sample repos of its config_references rows
C36_StoredEdgesMatchContribution ==
    [][NormalizeAndStore =>
          \A s \in DOMAIN server_raw_results :
             /\ backlink_scores'[s].tier1_contribution =
                   SumEdgeScores(StoredTier1Edges(backlink_edges', s))
             /\ \A e \in backlink_edges' :
                   e.server_name = Name(s) => e.referencer_repo \in SampleReposOf(s)]_vars

\* C37: when the response to a /search or /call request is returned, whether
\* the request found what it asked for, did not, or failed, no sqlite
\* connection is open
C37_NoConnectionOpenAtResponse ==
    gpc = "respond" => db_connections = 0

\* C38: in stage 1 of the scorer, in every interleaving, at most 10 fetches
\* are running, no missing repo is fetched twice and each has been fetched
\* once when its future is done, and every statement on the connection is
\* executed by the coordinating thread for a repo whose fetch has completed
C38_PoolBoundedAndWritesByCoordinator ==
    /\ Cardinality(Running) <= 10
    /\ \A i \in DOMAIN pool_state :
          /\ pool_fetches[i] <= 1
          /\ pool_state[i] \in {"running", "done", "stored"} => pool_fetches[i] = 1
    /\ \A w \in pool_writes :
          /\ w.thread = "main"
          /\ pool_state[w.repo] = "stored"
    /\ ppc = "stage2" => \A i \in DOMAIN pool_state : pool_fetches[i] = 1

\* ten fetches are running and an eleventh repo waits in the queue
C38_WitnessPoolFull ==
    /\ Cardinality(Running) = max_workers
    /\ Queued # {}

\* C39: a service_cost_hints row written for a server with at least one
\* matched service has requires_paid_service = not free_tier_available:
\* true exactly when a matched service of KNOWN_PAID_SERVICES has no free tier
C39_RequiresPaidIsNoFreeTier ==
    (c_done /\ c_row # Null /\ c_row[1].paid_services # Null) =>
        c_row[1].requires_paid_service = ~c_row[1].free_tier_available[1]
====
